---- MODULE Spec2Model ----
(***************************************************************************)
(* Enrollment service: the cache-aside read/write path of                  *)
(* handlers.EnrollmentHandler over repository.EnrollmentRepository (an     *)
(* in-memory map of pointers under a sync.RWMutex) and                     *)
(* cache.EnrollmentCache (Redis, fixed TTL).                               *)
(*                                                                         *)
(* Every HTTP request runs on its own goroutine (net/http).  A handler is  *)
(* a sequence of steps, one step per access to shared state (the lock,     *)
(* the map, a published heap object, Redis).  Every step is an operator    *)
(* from state to state; Spec serves the requests one at a time, a whole    *)
(* handler per action, and SpecConc lets the steps of requests interleave. *)
(*                                                                         *)
(* Also modelled: package middleware (SetCacheStatus, GetCacheStatus and   *)
(* CacheStatusMiddleware over http.Request contexts) and the single-file   *)
(* integer-id server of main.go (a global EnrollmentStore behind its five  *)
(* handlers), each with variables and specifications of its own.           *)
(***************************************************************************)
EXTENDS Integers, Sequences, FiniteSets, TLC

\* ------------------------------------------------------------------ bounds
MaxIds == 2       \* ids that exist: uuid.New() hands out each one once
NumProcs == 2     \* request goroutines
MaxTime == 3      \* last clock value (minutes)
MaxClock == 7     \* last clock value where entries are left to expire
MaxReqs == 3      \* http.Request values alive at a time
MaxDepth == 2     \* context values stacked on one request
MaxInts == 2      \* last id the integer-id server hands out

\* -------------------------------------------------------- program constants
EnrollmentCacheTTL == 5   \* minutes

Ids == 1..MaxIds
Procs == 1..NumProcs
NoId == 0                 \* the empty string as an id
NULL == 0                 \* the nil pointer
\* Heap cells for models.Enrollment objects: one per map entry plus those a
\* goroutine may still reference after the map dropped them.
Addrs == 1..(MaxIds * (NumProcs + 1))

\* time.Time: the wall clock reading and whether a monotonic reading is
\* attached (time.Now() attaches one; a decoded or zero time has none).
ZeroTime == [wall |-> 0, mono |-> FALSE]
TimeNow(t) == [wall |-> t, mono |-> TRUE]
IsZero(t) == t.wall = 0

ValidStatuses == {"pending", "active", "completed"}

\* A Validate that takes any status that is present.
ValidateAnyStatus(e) ==
    IF e.student_id = "" THEN "student_id is required"
    ELSE IF e.course_id = "" THEN "course_id is required"
    ELSE IF e.status = "" THEN "status is required"
    ELSE ""
\* Enrollment.Validate: the first failing rule, "" when the record is valid.
Validate(e) ==
    IF e.student_id = "" THEN "student_id is required"
    ELSE IF e.course_id = "" THEN "course_id is required"
    ELSE IF e.status = "" THEN "status is required"
    ELSE IF e.status \notin ValidStatuses
         THEN "status must be one of: pending, active, completed"
    ELSE ""

\* encoding/json of models.Enrollment: the fields in declaration order; a
\* time.Time is written as RFC 3339 text, which drops the monotonic reading.
Marshal(e) ==
    <<e.id, e.student_id, e.course_id, e.enrollment_date.wall, e.status,
      e.created_at.wall, e.updated_at.wall>>
UnmarshalLossy(js) ==
    [id |-> js[1], student_id |-> js[2], course_id |-> js[3],
     enrollment_date |-> [wall |-> js[4], mono |-> FALSE], status |-> "",
     created_at |-> [wall |-> js[6], mono |-> FALSE],
     updated_at |-> [wall |-> js[7], mono |-> FALSE]]
Unmarshal(js) ==
    [id |-> js[1], student_id |-> js[2], course_id |-> js[3],
     enrollment_date |-> [wall |-> js[4], mono |-> FALSE], status |-> js[5],
     created_at |-> [wall |-> js[6], mono |-> FALSE],
     updated_at |-> [wall |-> js[7], mono |-> FALSE]]
\* The two halves of one json.Marshal pass over a struct read through a
\* pointer: the fields up to enrollment_date, then the rest.
MarshalHead(e) == <<e.id, e.student_id, e.course_id, e.enrollment_date.wall>>
MarshalTail(e) == <<e.status, e.created_at.wall, e.updated_at.wall>>

\* ------------------------------------------------------------ request inputs
BodyStatuses == {"", "pending", "active", "archived"}
BodyTimes == {ZeroTime}
\* Request bodies as decoded by json.NewDecoder(r.Body).Decode(&enrollment);
\* absent fields keep Go's zero value.
Bodies ==
    [id : {NoId} \cup Ids, student_id : {"", "s1"}, course_id : {"", "c1"},
     enrollment_date : BodyTimes, status : BodyStatuses,
     created_at : BodyTimes, updated_at : {ZeroTime}]

NoObj == [none |-> TRUE]
NoEntry == [none |-> TRUE]
NoResp == [code |-> 0, xcache |-> "", body |-> <<>>]
\* What a request did so far (history, reset when its handler returns).
NoHist ==
    [hadEntry |-> FALSE,    \* Redis held an entry for the id at arrival
     found |-> FALSE,       \* cache.Get returned an enrollment
     cacheCalls |-> 0,      \* calls of cache.Get, Set and Delete
     cacheOk |-> 0,         \* those that returned without error
     repoGets |-> 0,        \* calls of repo.GetByID
     atRead |-> <<>>,       \* what the store held for the id when looked up
                            \* (on a hit: by the request that cached it)
     invalidated |-> FALSE, \* cache.Delete returned nil
     written |-> <<>>,      \* the record the handler handed to the store
     during |-> {},         \* records stored under the id since the lookup
     stored |-> FALSE,      \* repo.Update or repo.Delete returned nil
     bodyId |-> NoId,       \* for an update: the id the request body carried
     lostAt |-> 0]          \* when the store ceased to hold atRead (0: holds)
\* The latest successful write, or the first read of its id after a create
\* (history); requests that name other ids or fail leave it alone.
NoLast ==
    [op |-> "none",          \* create, get, update or delete
     id |-> NoId,            \* the id it named
     prev |-> "none",        \* for a get: what it followed
     xcache |-> "",          \* for a get: its X-Cache-Status
     cacheOk |-> FALSE,      \* for a get: its cache calls all returned nil
     hadEntry |-> FALSE,     \* for a write: Redis held an entry at arrival
     invalidated |-> FALSE,  \* for a write: its cache.Delete returned nil
     written |-> <<>>]       \* the record of the latest write

\* --------------------------------------------------------------------- state
VARIABLES
    enrollments,  \* EnrollmentRepository.enrollments: id -> pointer or NULL
    heap,         \* the models.Enrollment objects pointers refer to
    muW,          \* EnrollmentRepository.mu: the goroutine holding Lock, or 0
    muR,          \* EnrollmentRepository.mu: the goroutines holding RLock
    hcache,       \* EnrollmentHandler.cache != nil
    redis,        \* Redis keyspace "enrollment:<id>": entry or NoEntry
    now,          \* the wall clock
    issued,       \* the ids uuid.New() has handed out
    pc,           \* per goroutine: position in its handler
    op,           \* per goroutine: the handler it runs
    rid,          \* per goroutine: the id the request names
    enr,          \* per goroutine: the handler's local enrollment value
    ptr,          \* per goroutine: the pointers it got from the repository
    buf,          \* per goroutine: the part of the JSON written so far
    resp,         \* per goroutine: the HTTP response
    hist,         \* per goroutine: what the request did (history)
    last,         \* the latest returned write, or read after it (history)
    createdStamp, \* per id: created_at as CreateEnrollment set it (history)
    wins,         \* per id: creates that succeeded since it was absent (history)
    lost,         \* per id: when the store ceased to hold the record of the
                  \* entry of the id, 0 while it holds it (history)
    mw,           \* package middleware: the http.Request values and the
                  \* request CacheStatusMiddleware is serving
    store,        \* the integer-id server: the global EnrollmentStore and
                  \* the Enrollment objects its map points to
    calling       \* the integer-id server: per goroutine, the handler it
                  \* runs, its locals and its response

vars ==
    <<enrollments, heap, muW, muR, hcache, redis, now, issued, pc, op, rid,
      enr, ptr, buf, resp, hist, last, createdStamp, wins, lost, mw,
      store, calling>>

\* The state as one record, so that a step is an operator from state to
\* state and a handler is the composition of its steps.
Cur ==
    [enrollments |-> enrollments, heap |-> heap, muW |-> muW, muR |-> muR,
     hcache |-> hcache, redis |-> redis, now |-> now, issued |-> issued,
     pc |-> pc, op |-> op, rid |-> rid, enr |-> enr, ptr |-> ptr,
     buf |-> buf, resp |-> resp, hist |-> hist, last |-> last,
     createdStamp |-> createdStamp, wins |-> wins, lost |-> lost]
Install(s) ==
    /\ enrollments' = s.enrollments
    /\ heap' = s.heap
    /\ muW' = s.muW
    /\ muR' = s.muR
    /\ hcache' = s.hcache
    /\ redis' = s.redis
    /\ now' = s.now
    /\ issued' = s.issued
    /\ pc' = s.pc
    /\ op' = s.op
    /\ rid' = s.rid
    /\ enr' = s.enr
    /\ ptr' = s.ptr
    /\ buf' = s.buf
    /\ resp' = s.resp
    /\ hist' = s.hist
    /\ last' = s.last
    /\ createdStamp' = s.createdStamp
    /\ wins' = s.wins
    /\ lost' = [i \in Ids |-> IF s.redis[i] = NoEntry THEN 0 ELSE s.lost[i]]
    /\ UNCHANGED <<mw, store, calling>>

\* ---------------------------------------------------------------------- heap
Min(S) == CHOOSE x \in S : \A y \in S : x <= y
\* A new object: the escaping local of a handler, or Update's copy.
Alloc(h) == Min({a \in Addrs : h[a] = NoObj})
\* Objects that neither the map nor a goroutine references are collected.
Collect(h, m, ps) ==
    [a \in Addrs |->
        IF (\E i \in Ids : m[i] = a) \/ (\E q \in Procs : a \in ps[q])
        THEN h[a] ELSE NoObj]
\* The JSON of the record the store holds under id, <<>> when it holds none.
Held(h, m, id) == IF m[id] = NULL THEN <<>> ELSE Marshal(h[m[id]])
HeldAll(h, m) == {Marshal(h[m[i]]) : i \in {j \in Ids : m[j] # NULL}}

\* ---------------------------------------------------------------- repository
\* The bodies of the critical sections of EnrollmentRepository; Lock and
\* RLock are taken and released by the steps that call them.  sync.RWMutex:
\* a call of Lock first excludes the other writers and the readers to come
\* (it is pending), then waits for the readers that hold the lock; a call
\* of RLock waits while a writer holds the lock or is pending.
CanLockUnguarded(w, r) == TRUE
CanLock(w, r) == w = 0 /\ r = {}
CanRLock(w, pending) == w = 0 /\ pending = {}
ExistsNever(m, id) == FALSE
Exists(m, id) == id \in Ids /\ m[id] # NULL
\* Create stores the caller's pointer.
RepoCreate(m, id, a) == [m EXCEPT ![id] = a]
\* Update copies the caller's value, sets the id and stores a pointer to the
\* copy; the object the map pointed to before is left as it was.
RepoUpdateInPlace(h, m, id, e) ==
    [heap |-> [h EXCEPT ![m[id]] = [e EXCEPT !.id = id]], enrollments |-> m]
RepoUpdateKeepId(h, m, id, e) ==
    LET a == Alloc(h) IN
    [heap |-> [h EXCEPT ![a] = e], enrollments |-> [m EXCEPT ![id] = a]]
RepoUpdate(h, m, id, e) ==
    LET a == Alloc(h) IN
    [heap |-> [h EXCEPT ![a] = [e EXCEPT !.id = id]],
     enrollments |-> [m EXCEPT ![id] = a]]
RepoDeleteKept(m, id) == m
RepoDelete(m, id) == [m EXCEPT ![id] = NULL]

\* --------------------------------------------------------------------- cache
\* Redis drops a key once its time to live has run out.
ExpireNever(rs, t) == rs
Expire(rs, t) ==
    [i \in Ids |-> IF rs[i] # NoEntry /\ rs[i].expireAt <= t
                   THEN NoEntry ELSE rs[i]]
\* EnrollmentCache.Get: (nil, err) when Redis does not answer, (nil, nil)
\* on redis.Nil, else the unmarshalled value.
CacheGet(rs, up, id) ==
    IF ~up THEN [err |-> TRUE, val |-> NoObj]
    ELSE IF id \notin Ids \/ rs[id] = NoEntry
         THEN [err |-> FALSE, val |-> NoObj]
    ELSE [err |-> FALSE, val |-> Unmarshal(rs[id].data)]
IsHitNever(g) == FALSE
IsHit(g) == ~g.err /\ g.val # NoObj
\* EnrollmentCache.Set: SET enrollment:<enrollment.ID> <json> EX ttl.  The
\* entry also records what the store held under the id when the caller
\* looked it up and when the entry was written (history).
CacheSetLost(rs, up, js, t, atRead, atWrite) == [err |-> ~up, redis |-> rs]
CacheSetBlanked(rs, up, js, t, atRead, atWrite) ==
    IF ~up THEN [err |-> TRUE, redis |-> rs]
    ELSE [err |-> FALSE,
          redis |-> [rs EXCEPT ![js[1]] =
                        [data |-> [js EXCEPT ![5] = ""],
                         expireAt |-> t + EnrollmentCacheTTL,
                         atRead |-> atRead, atWrite |-> atWrite]]]
CacheSet(rs, up, js, t, atRead, atWrite) ==
    IF ~up THEN [err |-> TRUE, redis |-> rs]
    ELSE [err |-> FALSE,
          redis |-> [rs EXCEPT ![js[1]] =
                        [data |-> js, expireAt |-> t + EnrollmentCacheTTL,
                         atRead |-> atRead, atWrite |-> atWrite]]]
\* EnrollmentCache.Delete: DEL enrollment:<id>.
CacheDeleteAll(rs, up, id) ==
    IF ~up THEN [err |-> TRUE, redis |-> rs]
    ELSE [err |-> FALSE, redis |-> [i \in Ids |-> NoEntry]]
CacheDeleteDropped(rs, up, id) == [err |-> ~up, redis |-> rs]
CacheDelete(rs, up, id) ==
    IF ~up THEN [err |-> TRUE, redis |-> rs]
    ELSE [err |-> FALSE, redis |-> [rs EXCEPT ![id] = NoEntry]]

\* ---------------------------------------------------------------------- init
\* ---------------------------------------------------------------- middleware
\* CacheStatus values.
CacheHit == "HIT"
CacheMiss == "MISS"
CacheSkip == "SKIP"
Statuses == {CacheHit, CacheMiss, CacheSkip}
NoStatus == "none"        \* no value: a header not set, nothing recorded
\* http.Request values, each with its context: the chain of contexts from
\* the outermost to the innermost, each holding a status under
\* cacheContextKey{} or, NoStatus, a value under another key
\* (context.WithValue wraps the parent context, it never writes to it).
RAddrs == 1..MaxReqs
NoReq == [used |-> FALSE, ctx |-> <<>>]
Req(c) == [used |-> TRUE, ctx |-> c]
Used(reqs) == {a \in RAddrs : reqs[a].used}
Free(reqs) == RAddrs \ Used(reqs)
\* Context.Value(cacheContextKey{}): the innermost value, NoStatus when no
\* context of the chain holds the key.
RECURSIVE Value(_)
Value(c) ==
    IF c = <<>> THEN NoStatus
    ELSE LET n == Len(c)
         IN IF c[n] # NoStatus THEN c[n] ELSE Value(SubSeq(c, 1, n - 1))
\* A SetCacheStatus that stores the status in the request it was given.
SetCacheStatusInPlace(reqs, a, status) ==
    [reqs |-> [reqs EXCEPT ![a] = Req(Append(reqs[a].ctx, status))], r |-> a]
\* SetCacheStatus: a copy of the request (r.WithContext) whose context wraps
\* the context of r and holds the status; the pool with the copy, and the
\* copy's address.
SetCacheStatus(reqs, a, status) ==
    LET b == CHOOSE x \in Free(reqs) : \A y \in Free(reqs) : x <= y
    IN [reqs |-> [reqs EXCEPT ![b] = Req(Append(reqs[a].ctx, status))],
        r |-> b]
\* A GetCacheStatus that reads the outermost value.
GetCacheStatusOutermost(reqs, a) ==
    IF reqs[a].ctx = <<>> THEN CacheSkip ELSE reqs[a].ctx[1]
\* GetCacheStatus: the status in the request's context, CacheSkip when there
\* is none.
GetCacheStatus(reqs, a) ==
    LET v == Value(reqs[a].ctx)
    IN IF v # NoStatus THEN v ELSE CacheSkip
\* No request is being served.
NoServing ==
    [pc |-> "idle",          \* position of CacheStatusMiddleware's handler
     r |-> 0,                \* the request the middleware was called with
     hr |-> 0,               \* the request value the wrapped handler holds
     recorded |-> NoStatus,  \* the latest status the handler set (history)
     header |-> NoStatus,    \* w.Header()["X-Cache-Status"]
     wrote |-> FALSE,        \* the response header has been sent
     wire |-> NoStatus,      \* X-Cache-Status as sent
     got |-> NoStatus]       \* the latest result of GetCacheStatus
NoRequests == [reqs |-> [a \in RAddrs |-> NoReq], serving |-> NoServing]

\* ------------------------------------------------- the integer-id server
\* (main.go, single file: a global EnrollmentStore behind five handlers)
IntIds == 1..MaxInts
Nil == [nil |-> TRUE]     \* a nil *int or *string
\* The global store: nextID starts at 1, the map is empty.  The object the
\* map points to under a key is the one its create allocated; handed lists
\* the ids the creates answered with (history).
NewStore ==
    [muW |-> 0, muR |-> {},
     enrollments |-> [i \in IntIds |-> FALSE],
     objs |-> [i \in IntIds |-> NoObj],
     nextID |-> 1,
     handed |-> <<>>]
NoCall ==
    [pc |-> "idle", op |-> "none",
     id |-> 0,            \* the id of the URL
     raw |-> Nil,         \* the request body as sent (history)
     req |-> Nil,         \* the decoded request body
     enrollment |-> 0,    \* the handler's pointer (a key of objs), 0: none
     fresh |-> NoObj,     \* the Enrollment a create is building
     buf |-> <<>>,        \* the part of the JSON encoded so far
     code |-> 0, body |-> <<>>,   \* the response
     before |-> NoObj,    \* the record when an update found it (history)
     versions |-> {}]     \* the records a get may answer with (history)
validateStatus(status) == status \in {"pending", "active", "completed"}
\* encoding/json of Enrollment: the fields in declaration order.
IntMarshal(e) == <<e.ID, e.StudentID, e.CourseID, e.EnrollmentDate, e.Status>>
\* json Decode into UpdateEnrollmentRequest: a pointer field is nil when the
\* body leaves the field out or gives null for it.
Field(kind, v) == [kind |-> kind, v |-> v]
DecodeField(f) == IF f.kind = "value" THEN [nil |-> FALSE, v |-> f.v] ELSE Nil
DecodeUpdate(b) ==
    [StudentID |-> DecodeField(b.student_id),
     CourseID |-> DecodeField(b.course_id),
     Status |-> DecodeField(b.status)]
\* json Decode into CreateEnrollmentRequest: a field left out or null keeps
\* its zero value.
DecodeCreate(b) ==
    [StudentID |-> IF b.student_id.kind = "value" THEN b.student_id.v ELSE 0,
     CourseID |-> IF b.course_id.kind = "value" THEN b.course_id.v ELSE 0,
     Status |-> IF b.status.kind = "value" THEN b.status.v ELSE ""]
\* The checks of CreateEnrollmentHandler: the message of the first that
\* fails, "" when all pass.
CreateRefusal(req) ==
    IF req.StudentID <= 0 THEN "student_id must be a positive integer"
    ELSE IF req.CourseID <= 0 THEN "course_id must be a positive integer"
    ELSE IF req.Status = "" THEN "status is required"
    ELSE IF ~validateStatus(req.Status)
         THEN "status must be one of: pending, active, completed"
    ELSE ""
\* The checks of UpdateEnrollmentHandler.
UpdateRefusal(req) ==
    IF req.Status # Nil /\ ~validateStatus(req.Status.v)
    THEN "status must be one of: pending, active, completed"
    ELSE IF req.StudentID # Nil /\ req.StudentID.v <= 0
         THEN "student_id must be a positive integer"
    ELSE IF req.CourseID # Nil /\ req.CourseID.v <= 0
         THEN "course_id must be a positive integer"
    ELSE ""

InitService ==
    /\ enrollments = [i \in Ids |-> NULL]
    /\ heap = [a \in Addrs |-> NoObj]
    /\ muW = 0
    /\ muR = {}
    /\ hcache \in BOOLEAN       \* main: nil when the startup Ping failed
    /\ redis = [i \in Ids |-> NoEntry]
    /\ now = 1
    /\ issued = {}
    /\ pc = [p \in Procs |-> "idle"]
    /\ op = [p \in Procs |-> "none"]
    /\ rid = [p \in Procs |-> NoId]
    /\ enr = [p \in Procs |-> NoObj]
    /\ ptr = [p \in Procs |-> {}]
    /\ buf = [p \in Procs |-> <<>>]
    /\ resp = [p \in Procs |-> NoResp]
    /\ hist = [p \in Procs |-> NoHist]
    /\ last = NoLast
    /\ createdStamp = [i \in Ids |-> 0]
    /\ wins = [i \in Ids |-> 0]
    /\ lost = [i \in Ids |-> 0]
Init ==
    /\ InitService
    /\ mw = NoRequests
    /\ store = NewStore
    /\ calling = [p \in Procs |-> NoCall]

\* ------------------------------------------------------------ handler steps
\* respondWithJSON / respondWithError: the handler is done.
Respond(s, p, code, xcache, body) ==
    [s EXCEPT !.pc[p] = "done",
              !.resp[p] = [code |-> code, xcache |-> xcache, body |-> body]]
ErrorBody(msg) == <<"error", msg>>
DeletedBody == <<"message", "Enrollment deleted successfully">>
ListBodyNil(S) == IF S = {} THEN <<"null">> ELSE <<"list", S>>
ListBody(S) == <<"list", S>>

\* net/http hands the request to a goroutine.
Arrive(s, p, o, id) ==
    [s EXCEPT !.op[p] = o, !.rid[p] = id,
              !.hist[p] = [NoHist EXCEPT
                  !.hadEntry = id \in Ids /\ s.redis[id] # NoEntry]]
\* One cache call was made; ok tells whether it returned without error.
Called(h, ok) ==
    [h EXCEPT !.cacheCalls = @ + 1, !.cacheOk = @ + (IF ok THEN 1 ELSE 0)]

\* ---- CreateEnrollment
CreateDecodeError(s, p) ==
    Respond(Arrive(s, p, "create", NoId), p, 400, "",
            ErrorBody("Invalid request payload"))
CreateInvalid(s, p, b) ==
    Respond(Arrive(s, p, "create", NoId), p, 400, "", ErrorBody(Validate(b)))
\* The id and the three readings of time.Now(); the clock may advance by d1
\* between the first two and by d2 before the third.
CreateStamp(b, id, t, d1, d2) ==
    [b EXCEPT !.id = id,
              !.created_at = TimeNow(t),
              !.updated_at = TimeNow(t + d1),
              !.enrollment_date =
                  IF IsZero(@) THEN TimeNow(t + d1 + d2) ELSE @]
\* The local enrollment escapes to the heap: repo.Create gets its address.
CreateAccept(s, p, b, id, d1, d2) ==
    LET a == Alloc(s.heap)
        e == CreateStamp(b, id, s.now, d1, d2)
        s1 == Arrive(s, p, "create", id)
    IN [s1 EXCEPT !.pc[p] = "c_call",
                  !.now = s.now + d1 + d2,
                  !.redis = Expire(s.redis, s.now + d1 + d2),
                  !.issued = @ \cup {id},
                  !.heap[a] = e,
                  !.ptr[p] = {a},
                  !.enr[p] = e,
                  !.hist[p].written = Marshal(e)]
\* repo.Create: Lock, then the existence check.
CreateCheck(s, p) ==
    LET s1 == [s EXCEPT !.hist[p].atRead =
                            Held(s.heap, s.enrollments, s.rid[p])]
    IN IF Exists(s.enrollments, s.rid[p])
       THEN Respond(s1, p, 409, "", ErrorBody("Enrollment already exists"))
       ELSE [s1 EXCEPT !.pc[p] = "c_insert", !.muW = p]
\* Gets of the id that hold a pointer while the store is written.
Readers(s, id) ==
    {q \in Procs : /\ s.op[q] = "get"
                   /\ s.rid[q] = id
                   /\ s.pc[q] \in {"g_set", "g_resp", "g_resp2"}}
\* The store was written under id (history): the entry of id and the
\* readers of id note when the store ceased to hold their record.
Lose(s, id) ==
    LET cur == Held(s.heap, s.enrollments, id)
        age(l, d) == IF d = cur THEN 0 ELSE IF l = 0 THEN s.now ELSE l
    IN [s EXCEPT !.lost[id] =
                    IF s.redis[id] = NoEntry THEN 0
                    ELSE age(@, s.redis[id].data),
                 !.hist = [q \in Procs |->
                             IF q \in Readers(s, id)
                             THEN [@[q] EXCEPT
                                     !.lostAt = age(@, s.hist[q].atRead)]
                             ELSE @[q]]]
\* repo.Create: the insert, Unlock, and the 201 with the local value.
CreateInsertCaching(s, p) ==
    LET id == s.rid[p]
        a == CHOOSE x \in s.ptr[p] : TRUE
        js == Marshal(s.enr[p])
        s1 == [s EXCEPT !.enrollments = RepoCreate(@, id, a),
                        !.muW = 0,
                        !.createdStamp[id] = s.enr[p].created_at.wall,
                        !.wins[id] = @ + 1,
                        !.redis[id] =
                            [data |-> js,
                             expireAt |-> s.now + EnrollmentCacheTTL,
                             atRead |-> js, atWrite |-> js]]
    IN Respond(s1, p, 201, "", js)
CreateInsert(s, p) ==
    LET id == s.rid[p]
        a == CHOOSE x \in s.ptr[p] : TRUE
        s1 == [s EXCEPT !.enrollments = RepoCreate(@, id, a),
                        !.muW = 0,
                        !.createdStamp[id] = s.enr[p].created_at.wall,
                        !.wins[id] = @ + 1]
    IN Respond(Lose(s1, id), p, 201, "", Marshal(s.enr[p]))

\* ---- GetEnrollment
GetBeginCaching(s, p, id) ==
    [Arrive(s, p, "get", id) EXCEPT !.pc[p] = "g_cache"]
GetBegin(s, p, id) ==
    LET s1 == Arrive(s, p, "get", id)
    IN [s1 EXCEPT !.pc[p] = IF s.hcache THEN "g_cache" ELSE "g_rlock"]
\* h.cache.Get(id): a hit is answered from the cache alone.
GetFromCacheStrict(s, p, up) ==
    LET g == CacheGet(s.redis, up, s.rid[p])
        s1 == [s EXCEPT !.hist[p] =
                  [Called(@, ~g.err) EXCEPT
                      !.found = ~g.err /\ g.val # NoObj,
                      !.atRead = IF ~g.err /\ g.val # NoObj
                                 THEN s.redis[s.rid[p]].atRead ELSE @]]
    IN IF g.err
       THEN Respond(s1, p, 500, "", ErrorBody("Failed to retrieve enrollment"))
       ELSE IF IsHit(g) THEN Respond(s1, p, 200, "HIT", Marshal(g.val))
       ELSE [s1 EXCEPT !.pc[p] = "g_rlock"]
GetFromCache(s, p, up) ==
    LET g == CacheGet(s.redis, up, s.rid[p])
        s1 == [s EXCEPT !.hist[p] =
                  [Called(@, ~g.err) EXCEPT
                      !.found = ~g.err /\ g.val # NoObj,
                      !.atRead = IF ~g.err /\ g.val # NoObj
                                 THEN s.redis[s.rid[p]].atRead ELSE @]]
    IN IF IsHit(g) THEN Respond(s1, p, 200, "HIT", Marshal(g.val))
       ELSE [s1 EXCEPT !.pc[p] = "g_rlock"]
\* repo.GetByID: RLock.
GetRLock(s, p) == [s EXCEPT !.pc[p] = "g_read", !.muR = @ \cup {p}]
\* repo.GetByID: the lookup and RUnlock; the map's own pointer is returned.
GetByIDNegative(s, p) ==
    LET id == s.rid[p]
        s1 == [s EXCEPT !.muR = @ \ {p},
                        !.hist[p].repoGets = @ + 1,
                        !.hist[p].atRead = Held(s.heap, s.enrollments, id)]
    IN IF ~Exists(s.enrollments, id)
       THEN Respond([s1 EXCEPT !.redis[id] =
                        [data |-> <<id, "", "", 0, "", 0, 0>>,
                         expireAt |-> s.now + EnrollmentCacheTTL,
                         atRead |-> <<>>, atWrite |-> <<>>]],
                    p, 404, "", ErrorBody("Enrollment not found"))
       ELSE [s1 EXCEPT !.ptr[p] = {s.enrollments[id]},
                       !.pc[p] = IF s.hcache THEN "g_set" ELSE "g_resp"]
GetByID(s, p) ==
    LET id == s.rid[p]
        s1 == [s EXCEPT !.muR = @ \ {p},
                        !.hist[p].repoGets = @ + 1,
                        !.hist[p].atRead = Held(s.heap, s.enrollments, id)]
    IN IF ~Exists(s.enrollments, id)
       THEN Respond(s1, p, 404, "", ErrorBody("Enrollment not found"))
       ELSE [s1 EXCEPT !.ptr[p] = {s.enrollments[id]},
                       !.pc[p] = IF s.hcache THEN "g_set" ELSE "g_resp"]
\* h.cache.Set(enrollment): marshals through the pointer; an error is logged.
GetCacheSet(s, p, up) ==
    LET a == CHOOSE x \in s.ptr[p] : TRUE
        js == Marshal(s.heap[a])
        c == CacheSet(s.redis, up, js, s.now, s.hist[p].atRead,
                      Held(s.heap, s.enrollments, js[1]))
    IN [s EXCEPT !.redis = c.redis,
                 !.lost[js[1]] = IF c.err THEN @ ELSE s.hist[p].lostAt,
                 !.hist[p] = Called(@, ~c.err),
                 !.pc[p] = "g_resp"]
\* respondWithJSON marshals through the pointer, field after field.
GetRespHead(s, p) ==
    LET a == CHOOSE x \in s.ptr[p] : TRUE
    IN [s EXCEPT !.buf[p] = MarshalHead(s.heap[a]), !.pc[p] = "g_resp2"]
GetRespTail(s, p) ==
    LET a == CHOOSE x \in s.ptr[p] : TRUE
    IN Respond(s, p, 200, "MISS", s.buf[p] \o MarshalTail(s.heap[a]))

\* ---- GetAllEnrollments
GetAllBegin(s, p) == [Arrive(s, p, "getall", NoId) EXCEPT !.pc[p] = "ga_rlock"]
GetAllRLock(s, p) == [s EXCEPT !.pc[p] = "ga_read", !.muR = @ \cup {p}]
\* repo.GetAll: the slice of the map's pointers, RUnlock.
GetAll(s, p) ==
    [s EXCEPT !.muR = @ \ {p},
              !.ptr[p] = {s.enrollments[i] :
                             i \in {j \in Ids : s.enrollments[j] # NULL}},
              !.hist[p].atRead = HeldAll(s.heap, s.enrollments),
              !.pc[p] = "ga_resp"]
GetAllResp(s, p) ==
    Respond(s, p, 200, "", ListBody({Marshal(s.heap[a]) : a \in s.ptr[p]}))

\* ---- UpdateEnrollment
UpdateDecodeError(s, p, id) ==
    Respond(Arrive(s, p, "update", id), p, 400, "",
            ErrorBody("Invalid request payload"))
UpdateInvalid(s, p, id, b) ==
    Respond(Arrive(s, p, "update", id), p, 400, "", ErrorBody(Validate(b)))
\* The id of the URL and one reading of time.Now(); every other field is the
\* request body's.
UpdateStamp(b, id, t) == [b EXCEPT !.id = id, !.updated_at = TimeNow(t)]
UpdateAccept(s, p, id, b) ==
    LET e == UpdateStamp(b, id, s.now)
        s1 == Arrive(s, p, "update", id)
    IN [s1 EXCEPT !.pc[p] = "u_call", !.enr[p] = e,
                  !.hist[p].written = Marshal(e),
                  !.hist[p].bodyId = b.id]
\* A caller of repo.Update(id, &e) that did not set e.ID: the record keeps
\* the id its source gave it.
RepoUpdateCall(s, p, id, b) ==
    LET e == [b EXCEPT !.updated_at = TimeNow(s.now)]
        s1 == Arrive(s, p, "repo.Update", id)
    IN [s1 EXCEPT !.pc[p] = "u_call", !.enr[p] = e,
                  !.hist[p].written = Marshal(e),
                  !.hist[p].bodyId = b.id]
\* repo.Update: Lock, then the existence check.
UpdateCheckPurging(s, p) ==
    IF ~Exists(s.enrollments, s.rid[p])
    THEN Respond([s EXCEPT !.redis[s.rid[p]] = NoEntry],
                 p, 404, "", ErrorBody("Enrollment not found"))
    ELSE [s EXCEPT !.pc[p] = "u_store", !.muW = p]
UpdateCheck(s, p) ==
    IF ~Exists(s.enrollments, s.rid[p])
    THEN Respond(s, p, 404, "", ErrorBody("Enrollment not found"))
    ELSE [s EXCEPT !.pc[p] = "u_store", !.muW = p]
\* repo.Update: the store and Unlock.
UpdateStore(s, p) ==
    LET id == s.rid[p]
        r == RepoUpdate(s.heap, s.enrollments, id, s.enr[p])
        s1 == [s EXCEPT !.heap = r.heap,
                        !.enrollments = r.enrollments,
                        !.muW = 0,
                        !.hist = [q \in Procs |->
                                    IF q \in Readers(s, id)
                                    THEN [@[q] EXCEPT !.during =
                                             @ \cup {s.hist[p].written}]
                                    ELSE IF q = p
                                    THEN [@[q] EXCEPT !.stored = TRUE]
                                    ELSE @[q]]]
        s2 == Lose(s1, id)
    IN IF s.hcache THEN [s2 EXCEPT !.pc[p] = "u_inval"]
       ELSE Respond(s2, p, 200, "", Marshal(s.enr[p]))
\* h.cache.Delete(id): an error is logged; 200 with the local value.
UpdateInvalidateStrict(s, p, up) ==
    LET c == CacheDelete(s.redis, up, s.rid[p])
        s1 == [s EXCEPT !.redis = c.redis,
                        !.hist[p] = [Called(@, ~c.err) EXCEPT
                                        !.invalidated = ~c.err]]
    IN IF c.err
       THEN Respond(s1, p, 500, "", ErrorBody("Failed to update enrollment"))
       ELSE Respond(s1, p, 200, "", Marshal(s.enr[p]))
UpdateInvalidate(s, p, up) ==
    LET c == CacheDelete(s.redis, up, s.rid[p])
        s1 == [s EXCEPT !.redis = c.redis,
                        !.hist[p] = [Called(@, ~c.err) EXCEPT
                                        !.invalidated = ~c.err]]
    IN Respond(s1, p, 200, "", Marshal(s.enr[p]))

\* ---- DeleteEnrollment
DeleteBegin(s, p, id) == [Arrive(s, p, "delete", id) EXCEPT !.pc[p] = "d_call"]
\* repo.Delete: Lock, then the existence check.
DeleteCheckInvalidating(s, p) ==
    LET s0 == [s EXCEPT !.redis[s.rid[p]] = NoEntry]
    IN IF ~Exists(s.enrollments, s.rid[p])
       THEN Respond(s0, p, 404, "", ErrorBody("Enrollment not found"))
       ELSE [s0 EXCEPT !.pc[p] = "d_store", !.muW = p]
\* A DeleteCheck that reports a missing id as deleted.
DeleteCheckSilent(s, p) ==
    IF ~Exists(s.enrollments, s.rid[p])
    THEN Respond(s, p, 200, "", DeletedBody)
    ELSE [s EXCEPT !.pc[p] = "d_store", !.muW = p]
DeleteCheck(s, p) ==
    IF ~Exists(s.enrollments, s.rid[p])
    THEN Respond(s, p, 404, "", ErrorBody("Enrollment not found"))
    ELSE [s EXCEPT !.pc[p] = "d_store", !.muW = p]
\* A DeleteStore that returns without releasing the lock.
DeleteStoreLocked(s, p) ==
    LET id == s.rid[p]
        s1 == [s EXCEPT !.enrollments = RepoDelete(@, id),
                        !.wins[id] = 0,
                        !.hist[p].stored = TRUE]
        s2 == Lose(s1, id)
    IN IF s.hcache THEN [s2 EXCEPT !.pc[p] = "d_inval"]
       ELSE Respond(s2, p, 200, "", DeletedBody)
\* repo.Delete: delete(r.enrollments, id) and Unlock.
DeleteStore(s, p) ==
    LET id == s.rid[p]
        s1 == [s EXCEPT !.enrollments = RepoDelete(@, id),
                        !.muW = 0,
                        !.wins[id] = 0,
                        !.hist[p].stored = TRUE]
        s2 == Lose(s1, id)
    IN IF s.hcache THEN [s2 EXCEPT !.pc[p] = "d_inval"]
       ELSE Respond(s2, p, 200, "", DeletedBody)
DeleteInvalidate(s, p, up) ==
    LET c == CacheDelete(s.redis, up, s.rid[p])
        s1 == [s EXCEPT !.redis = c.redis,
                        !.hist[p] = [Called(@, ~c.err) EXCEPT
                                        !.invalidated = ~c.err]]
    IN Respond(s1, p, 200, "", DeletedBody)

\* ---- the handler returns
\* What the request leaves behind (history).
Remember(l, o, id, r, h) ==
    IF o = "get" /\ id = l.id
    THEN IF l.op = "create"
         THEN [l EXCEPT !.op = "get", !.prev = l.op, !.xcache = r.xcache,
                        !.cacheOk = h.cacheCalls > 0
                                    /\ h.cacheOk = h.cacheCalls]
         ELSE NoLast
    ELSE IF (o = "create" /\ r.code = 201)
            \/ (o \in {"update", "delete"} /\ r.code = 200)
    THEN [NoLast EXCEPT !.op = o, !.id = id, !.hadEntry = h.hadEntry,
                        !.invalidated = h.invalidated,
                        !.written = IF o = "delete" THEN <<>> ELSE h.written]
    ELSE l
Return(s, p) ==
    LET id == s.rid[p]
    IN [s EXCEPT !.pc[p] = "idle", !.op[p] = "none", !.rid[p] = NoId,
                 !.enr[p] = NoObj, !.ptr[p] = {}, !.buf[p] = <<>>,
                 !.resp[p] = NoResp, !.hist[p] = NoHist,
                 !.last = Remember(@, s.op[p], id, s.resp[p], s.hist[p])]

\* ---- one step of the handler goroutine p runs; up tells whether Redis
\* answers the cache call the step makes, if it makes one.
Pending(s) == {q \in Procs : s.pc[q] \in {"c_lock", "u_lock", "d_lock"}}
Blocked(s, p) ==
    \/ /\ s.pc[p] \in {"c_call", "u_call", "d_call"}
       /\ ~CanLock(s.muW, Pending(s))
    \/ s.pc[p] \in {"c_lock", "u_lock", "d_lock"} /\ ~CanLock(s.muW, s.muR)
    \/ /\ s.pc[p] \in {"g_rlock", "ga_rlock"}
       /\ ~CanRLock(s.muW, Pending(s))
\* r.mu.Lock() is called: the writer is pending.
LockCall(s, p) ==
    [s EXCEPT !.pc[p] = CASE @ = "c_call" -> "c_lock"
                          [] @ = "u_call" -> "u_lock"
                          [] @ = "d_call" -> "d_lock"]
Step(s, p, up) ==
    CASE s.pc[p] \in {"c_call", "u_call", "d_call"} -> LockCall(s, p)
      [] s.pc[p] = "c_lock" -> CreateCheck(s, p)
      [] s.pc[p] = "c_insert" -> CreateInsert(s, p)
      [] s.pc[p] = "g_cache" -> GetFromCache(s, p, up)
      [] s.pc[p] = "g_rlock" -> GetRLock(s, p)
      [] s.pc[p] = "g_read" -> GetByID(s, p)
      [] s.pc[p] = "g_set" -> GetCacheSet(s, p, up)
      [] s.pc[p] = "g_resp" -> GetRespHead(s, p)
      [] s.pc[p] = "g_resp2" -> GetRespTail(s, p)
      [] s.pc[p] = "ga_rlock" -> GetAllRLock(s, p)
      [] s.pc[p] = "ga_read" -> GetAll(s, p)
      [] s.pc[p] = "ga_resp" -> GetAllResp(s, p)
      [] s.pc[p] = "u_lock" -> UpdateCheck(s, p)
      [] s.pc[p] = "u_store" -> UpdateStore(s, p)
      [] s.pc[p] = "u_inval" -> UpdateInvalidate(s, p, up)
      [] s.pc[p] = "d_lock" -> DeleteCheck(s, p)
      [] s.pc[p] = "d_store" -> DeleteStore(s, p)
      [] s.pc[p] = "d_inval" -> DeleteInvalidate(s, p, up)
\* The garbage collector.
GC(s) == [s EXCEPT !.heap = Collect(s.heap, s.enrollments, s.ptr)]
\* The handler runs to its response; ups[k] is the fate of its k-th cache
\* call.
RECURSIVE Run(_, _, _)
Run(s, p, ups) ==
    IF s.pc[p] = "done" THEN GC(s)
    ELSE LET k == s.hist[p].cacheCalls + 1
         IN Run(Step(s, p, k \in DOMAIN ups /\ ups[k]), p, ups)
\* The fates of n cache calls.
Fates(n) == [1..n -> BOOLEAN]

\* ------------------------------------------------------------------ requests
\* The bodies the requests carry: the complete ones, and one that Validate
\* rejects.
SomeBodies ==
    {b \in Bodies : /\ b.id = NoId
                    /\ b.student_id = "s1"
                    /\ b.course_id = "c1"
                    /\ b.status # ""}
GoodBodies == {b \in SomeBodies : Validate(b) = ""}
\* uuid.New(): an id nobody has seen before (none left: the request waits).
NewIds(s) == IF Ids \ s.issued = {} THEN {} ELSE {Min(Ids \ s.issued)}
OneId == {Min(Ids)}
\* The states in which a handler stands after decoding, validating and
\* stamping its request, one per request that can arrive: the body is one of
\* bodies, the id one of ids, the clock advances by one of ds between two
\* readings.
CreateBegins(s, p, bodies, ids, ds) ==
    {CreateDecodeError(s, p)}
    \cup {CreateInvalid(s, p, b) : b \in {x \in bodies : Validate(x) # ""}}
    \cup {CreateAccept(s, p, i[1], i[2], i[3], i[4]) :
            i \in {x \in bodies \X ids \X ds \X ds :
                     /\ Validate(x[1]) = ""
                     /\ s.now + x[3] + x[4] <= MaxTime}}
GetBegins(s, p, ids) == {GetBegin(s, p, id) : id \in ids}
GetAllBegins(s, p) == {GetAllBegin(s, p)}
UpdateBegins(s, p, bodies, ids) ==
    {UpdateDecodeError(s, p, id) : id \in ids}
    \cup {UpdateInvalid(s, p, i[1], i[2]) :
            i \in {x \in ids \X bodies : Validate(x[2]) # ""}}
    \cup {UpdateAccept(s, p, i[1], i[2]) :
            i \in {x \in ids \X bodies : Validate(x[2]) = ""}}
DeleteBegins(s, p, ids) == {DeleteBegin(s, p, id) : id \in ids}

AllIdle == \A q \in Procs : pc[q] = "idle"
\* A request is served from arrival to response with no other in flight; it
\* makes at most calls cache calls.
Serve(p, begins, calls) ==
    /\ p = Min(Procs)
    /\ AllIdle
    /\ \E s1 \in begins :
          \E ups \in Fates(IF hcache THEN calls ELSE 0) :
             Install(Run(s1, p, ups))
CreateEnrollment(p, ids, ds) ==
    Serve(p, CreateBegins(Cur, p, SomeBodies, NewIds(Cur) \cap ids, ds), 0)
GetEnrollment(p, ids) == Serve(p, GetBegins(Cur, p, ids), 2)
GetAllEnrollments(p) == Serve(p, GetAllBegins(Cur, p), 0)
UpdateEnrollment(p, ids) == Serve(p, UpdateBegins(Cur, p, SomeBodies, ids), 1)
DeleteEnrollment(p, ids) == Serve(p, DeleteBegins(Cur, p, ids), 1)
Returned(p) == pc[p] = "done" /\ Install(GC(Return(Cur, p)))
Tick ==
    /\ now < MaxTime
    /\ Install([Cur EXCEPT !.now = now + 1, !.redis = Expire(redis, now + 1)])

\* ------------ Spec: one request at a time, any id, within one clock reading
Next ==
    \E p \in Procs :
       \/ CreateEnrollment(p, Ids, {0})
       \/ GetEnrollment(p, Ids)
       \/ GetAllEnrollments(p)
       \/ UpdateEnrollment(p, Ids)
       \/ DeleteEnrollment(p, Ids)
       \/ Returned(p)
Spec == Init /\ [][Next]_vars

\* ------------- SpecTime: one request at a time on one id, as time passes
NextTime ==
    \/ \E p \in Procs :
          \/ CreateEnrollment(p, OneId, {0, 1})
          \/ GetEnrollment(p, OneId)
          \/ GetAllEnrollments(p)
          \/ UpdateEnrollment(p, OneId)
          \/ DeleteEnrollment(p, OneId)
          \/ Returned(p)
    \/ Tick
SpecTime == Init /\ [][NextTime]_vars

\* -------- SpecConc: overlapping requests on one id that reach the store
Arrives(p, begins) == pc[p] = "idle" /\ \E s1 \in begins : Install(s1)
Accepted(S) == {s1 \in S : \A q \in Procs : s1.pc[q] # "done"}
CreateArrives(p, ids) ==
    Arrives(p, Accepted(CreateBegins(Cur, p, GoodBodies, ids, {0})))
GetArrives(p, ids) == Arrives(p, GetBegins(Cur, p, ids))
GetAllArrives(p) == Arrives(p, GetAllBegins(Cur, p))
UpdateArrives(p, ids) ==
    Arrives(p, Accepted(UpdateBegins(Cur, p, GoodBodies, ids)))
DeleteArrives(p, ids) == Arrives(p, DeleteBegins(Cur, p, ids))
RepoPcs ==
    {"c_call", "c_lock", "c_insert", "g_rlock", "g_read", "ga_rlock",
     "ga_read", "u_call", "u_lock", "u_store", "d_call", "d_lock", "d_store"}
CachePcs == {"g_cache", "g_set", "u_inval", "d_inval"}
WritePcs == {"g_resp", "g_resp2", "ga_resp"}
\* A step inside the repository, a call of the cache, a step of writing the
\* response, the return of the handler.
RepoStep(p) ==
    /\ pc[p] \in RepoPcs
    /\ ~Blocked(Cur, p)
    /\ Install(GC(Step(Cur, p, TRUE)))
CacheStep(p) ==
    /\ pc[p] \in CachePcs
    /\ \E up \in BOOLEAN : Install(GC(Step(Cur, p, up)))
WriteStep(p) ==
    /\ pc[p] \in WritePcs
    /\ Install(GC(Step(Cur, p, TRUE)))
Leaves(p) ==
    /\ pc[p] = "done"
    /\ Install(GC([Return(Cur, p) EXCEPT !.last = last]))

NextConc ==
    \E p \in Procs :
       \/ CreateArrives(p, NewIds(Cur) \cap OneId)
       \/ GetArrives(p, OneId)
       \/ UpdateArrives(p, OneId)
       \/ DeleteArrives(p, OneId)
       \/ RepoStep(p)
       \/ CacheStep(p)
       \/ WriteStep(p)
       \/ Leaves(p)
SpecConc == Init /\ [][NextConc]_vars

\* ----- SpecStore: overlapping callers of the repository that choose the ids
NextStore ==
    \E p \in Procs :
       \/ CreateArrives(p, Ids)
       \/ GetAllArrives(p)
       \/ RepoStep(p)
       \/ WriteStep(p)
       \/ Leaves(p)
SpecStore == Init /\ [][NextStore]_vars

\* ------ SpecDrop: one request at a time, and Redis may lose entries between
\* requests (eviction, FLUSHALL, a restart of the Redis server)
Dropped(s, D) ==
    [s EXCEPT !.redis = [i \in Ids |-> IF i \in D THEN NoEntry ELSE s.redis[i]]]
DropEntries ==
    /\ AllIdle
    /\ \E D \in SUBSET Ids :
          /\ \E id \in D : redis[id] # NoEntry
          /\ Install(Dropped(Cur, D))
NextDrop == Next \/ DropEntries
SpecDrop == Init /\ [][NextDrop]_vars

\* ----- SpecRepo: one request at a time; request bodies carry ids of their
\* own, and repo.Update is also called with records whose ID is not the
\* lookup id
IdBodies == {b \in Bodies : Validate(b) = "" /\ b.status = "pending"}
RepoUpdateCalls(p) ==
    Serve(p, {RepoUpdateCall(Cur, p, i[1], i[2]) : i \in Ids \X IdBodies}, 1)
UpdateWithIds(p) == Serve(p, UpdateBegins(Cur, p, IdBodies, Ids), 1)
NextRepo ==
    \E p \in Procs :
       \/ CreateEnrollment(p, Ids, {0})
       \/ GetEnrollment(p, Ids)
       \/ RepoUpdateCalls(p)
       \/ UpdateWithIds(p)
       \/ Returned(p)
SpecRepo == Init /\ [][NextRepo]_vars

\* ------ SpecTTL: one request at a time on one id, over a clock that runs
\* past the time to live of the entries
Elapse ==
    /\ now < MaxClock
    /\ Install([Cur EXCEPT !.now = now + 1, !.redis = Expire(redis, now + 1)])
NextTTL ==
    \/ \E p \in Procs :
          \/ CreateEnrollment(p, OneId, {0})
          \/ GetEnrollment(p, OneId)
          \/ UpdateEnrollment(p, OneId)
          \/ DeleteEnrollment(p, OneId)
          \/ Returned(p)
    \/ Elapse
SpecTTL == Init /\ [][NextTTL]_vars

\* ---- SpecLive: overlapping requests on one id under fair scheduling: a
\* goroutine that can run does (the Go scheduler preempts), a goroutine
\* waiting for the sync.RWMutex gets it (the mutex is starvation free), and
\* a call of Redis returns, with the reply or with an error (the client's
\* dial, read and write timeouts)
PendingBodies == {b \in GoodBodies : b.status = "pending"}
NextLive ==
    \E p \in Procs :
       \/ Arrives(p, Accepted(CreateBegins(Cur, p, PendingBodies,
                                           NewIds(Cur) \cap OneId, {0})))
       \/ GetArrives(p, OneId)
       \/ Arrives(p, Accepted(UpdateBegins(Cur, p, PendingBodies, OneId)))
       \/ DeleteArrives(p, OneId)
       \/ RepoStep(p)
       \/ CacheStep(p)
       \/ WriteStep(p)
       \/ Leaves(p)
\* The handler of p can take its next step; the step it takes moves its
\* position (no other goroutine does).
StepPcs == RepoPcs \cup CachePcs \cup WritePcs
Runnable(p) == pc[p] \in StepPcs /\ ~Blocked(Cur, p)
Scheduled(p) ==
    /\ Runnable(p)
    /\ pc' \in [Procs -> StepPcs \cup {"idle", "done"}]
    /\ pc'[p] # pc[p]
SpecLive ==
    /\ Init
    /\ [][NextLive]_vars
    /\ \A p \in Procs : SF_pc(Scheduled(p))

\* ---- SpecValid: one request at a time on one id, the bodies with any
\* field missing or wrong
AnyBodies == {b \in Bodies : b.id = NoId}
NextValid ==
    \E p \in Procs :
       \/ Serve(p, CreateBegins(Cur, p, AnyBodies,
                                NewIds(Cur) \cap OneId, {0}), 0)
       \/ GetEnrollment(p, OneId)
       \/ Serve(p, UpdateBegins(Cur, p, AnyBodies, OneId), 1)
       \/ DeleteEnrollment(p, OneId)
       \/ Returned(p)
SpecValid == Init /\ [][NextValid]_vars

\* ---- SpecErr: overlapping requests on one id; the id of a create may be
\* one the store holds (repo.Create called with a taken id)
NextErr ==
    \E p \in Procs :
       \/ Arrives(p, Accepted(CreateBegins(Cur, p, PendingBodies, OneId, {0})))
       \/ GetArrives(p, OneId)
       \/ Arrives(p, Accepted(UpdateBegins(Cur, p, PendingBodies, OneId)))
       \/ DeleteArrives(p, OneId)
       \/ RepoStep(p)
       \/ CacheStep(p)
       \/ WriteStep(p)
       \/ Leaves(p)
SpecErr == Init /\ [][NextErr]_vars

\* ---- SpecReach: overlapping requests on one id while Redis is reachable:
\* every cache call returns without error
CacheAnswers(p) ==
    /\ pc[p] \in CachePcs
    /\ Install(GC(Step(Cur, p, TRUE)))
NextReach ==
    \E p \in Procs :
       \/ CreateArrives(p, NewIds(Cur) \cap OneId)
       \/ GetArrives(p, OneId)
       \/ UpdateArrives(p, OneId)
       \/ DeleteArrives(p, OneId)
       \/ RepoStep(p)
       \/ CacheAnswers(p)
       \/ WriteStep(p)
       \/ Leaves(p)
SpecReach == Init /\ [][NextReach]_vars

\* ---- SpecStale: a writer and a reader of one id overlap while Redis is
\* reachable, over a clock that runs past the time to live of the entries; a
\* goroutine may be held up between any two of its steps.  The writes arrive
\* within the first MaxTime minutes.
Writer == Min(Procs)
NextStale ==
    \/ \E p \in Procs :
          \/ /\ p = Writer
             /\ Arrives(p, Accepted(CreateBegins(Cur, p, PendingBodies,
                                                 NewIds(Cur) \cap OneId, {0})))
          \/ /\ p = Writer
             /\ now <= MaxTime
             /\ Arrives(p, Accepted(UpdateBegins(Cur, p, PendingBodies,
                                                 OneId)))
          \/ p # Writer /\ GetArrives(p, OneId)
          \/ RepoStep(p)
          \/ CacheAnswers(p)
          \/ WriteStep(p)
          \/ Leaves(p)
    \/ Elapse
SpecStale == Init /\ [][NextStale]_vars

\* ---- SpecUp: one request at a time, any id, within one clock reading,
\* while Redis is reachable: every cache call returns without error
AllOk == [k \in 1..2 |-> TRUE]
ServeUp(p, begins) ==
    /\ p = Min(Procs)
    /\ AllIdle
    /\ \E s1 \in begins : Install(Run(s1, p, AllOk))
NextUp ==
    \E p \in Procs :
       \/ ServeUp(p, CreateBegins(Cur, p, SomeBodies, NewIds(Cur), {0}))
       \/ ServeUp(p, GetBegins(Cur, p, Ids))
       \/ ServeUp(p, GetAllBegins(Cur, p))
       \/ ServeUp(p, UpdateBegins(Cur, p, SomeBodies, Ids))
       \/ ServeUp(p, DeleteBegins(Cur, p, Ids))
       \/ Returned(p)
SpecUp == Init /\ [][NextUp]_vars
\* The service built on the handler without a cache (NewEnrollmentHandler
\* with the repository alone): the same repository behind handlers that make
\* no cache call.
Uncached(s) == [s EXCEPT !.hcache = FALSE]

\* ---- SpecKeys: one request at a time, any id; request bodies carry ids of
\* their own and may miss or spoil any field, and repo.Update is also called
\* with records whose ID is not the lookup id
NextKeys ==
    \E p \in Procs :
       \/ Serve(p, CreateBegins(Cur, p, Bodies, NewIds(Cur), {0}), 0)
       \/ GetEnrollment(p, Ids)
       \/ Serve(p, UpdateBegins(Cur, p, Bodies, Ids), 1)
       \/ RepoUpdateCalls(p)
       \/ DeleteEnrollment(p, Ids)
       \/ Returned(p)
SpecKeys == Init /\ [][NextKeys]_vars

\* ---- SpecCtx: SetCacheStatus and GetCacheStatus applied to requests whose
\* contexts are any chain
svcVars ==
    <<enrollments, heap, muW, muR, hcache, redis, now, issued, pc, op, rid,
      enr, ptr, buf, resp, hist, last, createdStamp, wins, lost, store,
      calling>>
RECURSIVE Chains(_)
Chains(n) ==
    IF n = 0 THEN {<<>>}
    ELSE LET shorter == Chains(n - 1)
         IN shorter \cup {Append(c, v) : c \in shorter,
                                         v \in Statuses \cup {NoStatus}}
InitCtx ==
    /\ InitService
    /\ mw \in {[NoRequests EXCEPT !.reqs[1] = Req(c)] : c \in Chains(MaxDepth)}
    /\ store = NewStore
    /\ calling = [p \in Procs |-> NoCall]
SetCalls(a, status) ==
    /\ a \in Used(mw.reqs)
    /\ Free(mw.reqs) # {}
    /\ Len(mw.reqs[a].ctx) < MaxDepth
    /\ mw' = [mw EXCEPT !.reqs = SetCacheStatus(mw.reqs, a, status).reqs]
    /\ UNCHANGED svcVars
GetCalls(a) ==
    /\ a \in Used(mw.reqs)
    /\ mw' = [mw EXCEPT !.serving.got = GetCacheStatus(mw.reqs, a)]
    /\ UNCHANGED svcVars
\* A request value nothing refers to any more is collected.
Released(a) ==
    /\ a \in Used(mw.reqs)
    /\ Cardinality(Used(mw.reqs)) > 1
    /\ mw' = [mw EXCEPT !.reqs[a] = NoReq]
    /\ UNCHANGED svcVars
NextCtx ==
    \E a \in RAddrs :
       \/ \E status \in Statuses : SetCalls(a, status)
       \/ GetCalls(a)
       \/ Released(a)
SpecCtx == InitCtx /\ [][NextCtx]_vars

\* ---- SpecMw: CacheStatusMiddleware around a handler that may record a
\* status with SetCacheStatus, set the header itself and write its response
\* The server calls the middleware with a request.
MwArrive ==
    /\ mw.serving.pc = "idle"
    /\ LET a == Min(Free(mw.reqs))
       IN mw' = [reqs |-> [mw.reqs EXCEPT ![a] = Req(<<>>)],
                 serving |-> [NoServing EXCEPT !.pc = "handler",
                                               !.r = a, !.hr = a]]
    /\ UNCHANGED svcVars
\* The wrapped handler: r = SetCacheStatus(r, status).
HandlerRecords(status) ==
    /\ mw.serving.pc = "handler"
    /\ Free(mw.reqs) # {}
    /\ LET c == SetCacheStatus(mw.reqs, mw.serving.hr, status)
       IN mw' = [reqs |-> c.reqs,
                 serving |-> [mw.serving EXCEPT !.hr = c.r,
                                                !.recorded = status]]
    /\ UNCHANGED svcVars
\* The wrapped handler: w.Header().Set("X-Cache-Status", ...), as
\* GetEnrollment does.
HandlerSetsHeader(status) ==
    /\ mw.serving.pc = "handler"
    /\ mw.serving.header # status
    /\ mw' = [mw EXCEPT !.serving.header = status]
    /\ UNCHANGED svcVars
\* The wrapped handler: WriteHeader or Write, through cacheStatusWriter to
\* the server's writer; the first one sends the header map as it is.
HandlerWrites ==
    /\ mw.serving.pc = "handler"
    /\ ~mw.serving.wrote
    /\ mw' = [mw EXCEPT !.serving.wrote = TRUE,
                        !.serving.wire = mw.serving.header]
    /\ UNCHANGED svcVars
\* next.ServeHTTP has returned: GetCacheStatus(r) and Header().Set; the
\* server then sends the header map if nothing was written yet.
MwAfter ==
    /\ mw.serving.pc = "handler"
    /\ LET status == GetCacheStatus(mw.reqs, mw.serving.r)
       IN mw' = [mw EXCEPT !.serving.pc = "sent",
                           !.serving.got = status,
                           !.serving.header = status,
                           !.serving.wrote = TRUE,
                           !.serving.wire = IF mw.serving.wrote THEN @
                                            ELSE status]
    /\ UNCHANGED svcVars
\* The response is complete; the request values are collected.
MwDone ==
    /\ mw.serving.pc = "sent"
    /\ mw' = NoRequests
    /\ UNCHANGED svcVars
NextMw ==
    \/ MwArrive
    \/ \E status \in Statuses : HandlerRecords(status)
    \/ \E status \in {CacheHit, CacheMiss} : HandlerSetsHeader(status)
    \/ HandlerWrites
    \/ MwAfter
    \/ MwDone
SpecMw == Init /\ [][NextMw]_vars

\* ---- the integer-id server: the steps of its handlers
\* The state of the server as one record.
IntCur == [store |-> store, calling |-> calling, now |-> now]
\* Objects that neither the map nor a handler points to are collected.
IntCollect(s) ==
    [s EXCEPT !.store.objs =
        [i \in IntIds |->
            IF s.store.enrollments[i]
               \/ \E q \in Procs : s.calling[q].enrollment = i
            THEN @[i] ELSE NoObj]]
IntInstall(s) ==
    /\ store' = IntCollect(s).store
    /\ calling' = s.calling
    /\ UNCHANGED <<enrollments, heap, muW, muR, hcache, redis, now, issued,
                   pc, op, rid, enr, ptr, buf, resp, hist, last,
                   createdStamp, wins, lost, mw>>
\* store.enrollments[id]: exists.
Has(st, id) == id \in IntIds /\ st.enrollments[id]
\* sendJSONResponse, sendErrorResponse: the handler is done; its deferred
\* Unlock runs.
IntRespond(s, p, code, body) ==
    [s EXCEPT !.calling[p].pc = "done",
              !.calling[p].code = code,
              !.calling[p].body = body,
              !.store.muW = IF @ = p THEN 0 ELSE @]
IntArrive(s, p, o, id) ==
    [s EXCEPT !.calling[p] = [NoCall EXCEPT !.op = o, !.id = id]]
\* A body that is not JSON of the expected shape.
Malformed == [malformed |-> TRUE]
\* strconv.Atoi of the {id} of the URL: text that is a number or is not.
Path(ok, n) == [ok |-> ok, n |-> n]

\* CreateEnrollmentHandler: decode, check, then Lock.
IntCreateBegin(s, p, b) ==
    LET s1 == IntArrive(s, p, "create", 0)
    IN IF b = Malformed THEN IntRespond(s1, p, 400, <<"Invalid request body">>)
       ELSE IF CreateRefusal(DecodeCreate(b)) # ""
            THEN IntRespond(s1, p, 400, <<CreateRefusal(DecodeCreate(b))>>)
       ELSE [s1 EXCEPT !.calling[p].req = DecodeCreate(b),
                       !.calling[p].pc = "ic_lock"]
IntCreateLock(s, p) ==
    [s EXCEPT !.store.muW = p, !.calling[p].pc = "ic_new"]
\* enrollment := &Enrollment{ID: store.nextID, ...}
IntCreateNew(s, p) ==
    [s EXCEPT !.calling[p].fresh =
                 [ID |-> s.store.nextID,
                  StudentID |-> s.calling[p].req.StudentID,
                  CourseID |-> s.calling[p].req.CourseID,
                  EnrollmentDate |-> s.now,
                  Status |-> s.calling[p].req.Status],
              !.calling[p].pc = "ic_put"]
\* store.enrollments[store.nextID] = enrollment
IntCreatePut(s, p) ==
    LET k == s.store.nextID
    IN [s EXCEPT !.store.enrollments[k] = TRUE,
                 !.store.objs[k] = s.calling[p].fresh,
                 !.calling[p].enrollment = k,
                 !.calling[p].pc = "ic_inc"]
\* store.nextID++, the response, Unlock.
IntCreateDone(s, p) ==
    LET e == s.store.objs[s.calling[p].enrollment]
        s1 == [s EXCEPT !.store.nextID = @ + 1,
                        !.store.handed = Append(@, e.ID)]
    IN IntRespond(s1, p, 201, IntMarshal(e))

\* GetEnrollmentByIDHandler: Atoi, then RLock.
IntGetBegin(s, p, path) ==
    LET s1 == IntArrive(s, p, "get", path.n)
    IN IF ~path.ok THEN IntRespond(s1, p, 400, <<"Invalid ID">>)
       ELSE [s1 EXCEPT !.calling[p].pc = "ig_rlock"]
IntGetRLock(s, p) ==
    [s EXCEPT !.store.muR = @ \cup {p}, !.calling[p].pc = "ig_find"]
\* The lookup and RUnlock; the pointer is kept.
IntGetFind(s, p) ==
    LET id == s.calling[p].id
        s1 == [s EXCEPT !.store.muR = @ \ {p}]
    IN IF ~Has(s.store, id) THEN IntRespond(s1, p, 404, <<"Not found">>)
       ELSE [s1 EXCEPT !.calling[p].enrollment = id,
                       !.calling[p].versions = {IntMarshal(s.store.objs[id])},
                       !.calling[p].pc = "ig_enc1"]
\* sendJSONResponse(w, 200, enrollment): the encoder reads the fields
\* through the pointer, one after the other, with no lock held.
IntGetEncodeHead(s, p) ==
    LET e == s.store.objs[s.calling[p].enrollment]
    IN [s EXCEPT !.calling[p].buf = <<e.ID, e.StudentID>>,
                 !.calling[p].pc = "ig_enc2"]
IntGetEncodeMid(s, p) ==
    LET e == s.store.objs[s.calling[p].enrollment]
    IN [s EXCEPT !.calling[p].buf = @ \o <<e.CourseID, e.EnrollmentDate>>,
                 !.calling[p].pc = "ig_enc3"]
IntGetEncodeTail(s, p) ==
    LET e == s.store.objs[s.calling[p].enrollment]
    IN IntRespond(s, p, 200, s.calling[p].buf \o <<e.Status>>)

\* UpdateEnrollmentHandler: Atoi, decode, check, then Lock.
IntUpdateBegin(s, p, path, b) ==
    LET s1 == IntArrive(s, p, "update", path.n)
    IN IF ~path.ok THEN IntRespond(s1, p, 400, <<"Invalid ID">>)
       ELSE IF b = Malformed
            THEN IntRespond(s1, p, 400, <<"Invalid request body">>)
       ELSE LET s2 == [s1 EXCEPT !.calling[p].raw = b,
                                 !.calling[p].req = DecodeUpdate(b)]
            IN IF UpdateRefusal(DecodeUpdate(b)) # ""
               THEN IntRespond(s2, p, 400, <<UpdateRefusal(DecodeUpdate(b))>>)
               ELSE [s2 EXCEPT !.calling[p].pc = "iu_lock"]
\* The record with the fields of the request that are not nil.
ApplyUpdates(e, req) ==
    [e EXCEPT !.StudentID = IF req.StudentID # Nil THEN req.StudentID.v ELSE @,
              !.CourseID = IF req.CourseID # Nil THEN req.CourseID.v ELSE @,
              !.Status = IF req.Status # Nil THEN req.Status.v ELSE @]
\* Lock and the lookup.  The gets that hold the pointer note the record
\* this update is about to write (history).
IntUpdateFind(s, p) ==
    LET id == s.calling[p].id
        s1 == [s EXCEPT !.store.muW = p]
    IN IF ~Has(s.store, id) THEN IntRespond(s1, p, 404, <<"Not found">>)
       ELSE LET after == IntMarshal(ApplyUpdates(s.store.objs[id],
                                                 s.calling[p].req))
            IN [s1 EXCEPT
                  !.calling =
                     [q \in Procs |->
                        IF q = p
                        THEN [@[q] EXCEPT !.enrollment = id,
                                          !.before = s.store.objs[id],
                                          !.pc = "iu_sid"]
                        ELSE IF @[q].op = "get" /\ @[q].enrollment = id
                        THEN [@[q] EXCEPT !.versions = @ \cup {after}]
                        ELSE @[q]]]
\* The assignments through the pointer, in the order of the code.
IntUpdateStudentID(s, p) ==
    LET req == s.calling[p].req
    IN [s EXCEPT !.store.objs[s.calling[p].enrollment].StudentID =
                    IF req.StudentID # Nil THEN req.StudentID.v ELSE @,
                 !.calling[p].pc = "iu_cid"]
IntUpdateCourseIDZeroing(s, p) ==
    LET req == s.calling[p].req
    IN [s EXCEPT !.store.objs[s.calling[p].enrollment].CourseID =
                    IF req.CourseID # Nil THEN req.CourseID.v ELSE 0,
                 !.calling[p].pc = "iu_st"]
IntUpdateCourseID(s, p) ==
    LET req == s.calling[p].req
    IN [s EXCEPT !.store.objs[s.calling[p].enrollment].CourseID =
                    IF req.CourseID # Nil THEN req.CourseID.v ELSE @,
                 !.calling[p].pc = "iu_st"]
\* The last assignment, the response, Unlock.
IntUpdateStatus(s, p) ==
    LET req == s.calling[p].req
        s1 == [s EXCEPT !.store.objs[s.calling[p].enrollment].Status =
                           IF req.Status # Nil THEN req.Status.v ELSE @]
    IN IntRespond(s1, p, 200,
                  IntMarshal(s1.store.objs[s.calling[p].enrollment]))

\* A delete that gives the id back to the counter.
IntDeleteFindReusing(s, p) ==
    LET id == s.calling[p].id
        s1 == [s EXCEPT !.store.muW = p]
    IN IF ~Has(s.store, id) THEN IntRespond(s1, p, 404, <<"Not found">>)
       ELSE IntRespond([s1 EXCEPT !.store.enrollments[id] = FALSE,
                                  !.store.nextID = id],
                       p, 200, <<"deleted", id>>)
\* DeleteEnrollmentHandler: Atoi, then Lock, the lookup, delete, the
\* response, Unlock.
IntDeleteBegin(s, p, path) ==
    LET s1 == IntArrive(s, p, "delete", path.n)
    IN IF ~path.ok THEN IntRespond(s1, p, 400, <<"Invalid ID">>)
       ELSE [s1 EXCEPT !.calling[p].pc = "id_lock"]
IntDeleteFind(s, p) ==
    LET id == s.calling[p].id
        s1 == [s EXCEPT !.store.muW = p]
    IN IF ~Has(s.store, id) THEN IntRespond(s1, p, 404, <<"Not found">>)
       ELSE IntRespond([s1 EXCEPT !.store.enrollments[id] = FALSE],
                       p, 200, <<"deleted", id>>)
\* The handler has returned.
IntReturn(s, p) == [s EXCEPT !.calling[p] = NoCall]

\* The goroutine waits for store.mu.
IntBlocked(s, p) ==
    \/ /\ s.calling[p].pc \in {"ic_lock", "iu_lock", "id_lock"}
       /\ ~CanLock(s.store.muW, s.store.muR)
    \/ /\ s.calling[p].pc = "ig_rlock"
       /\ ~CanRLock(s.store.muW, {})
IntStep(s, p) ==
    CASE s.calling[p].pc = "ic_lock" -> IntCreateLock(s, p)
      [] s.calling[p].pc = "ic_new" -> IntCreateNew(s, p)
      [] s.calling[p].pc = "ic_put" -> IntCreatePut(s, p)
      [] s.calling[p].pc = "ic_inc" -> IntCreateDone(s, p)
      [] s.calling[p].pc = "ig_rlock" -> IntGetRLock(s, p)
      [] s.calling[p].pc = "ig_find" -> IntGetFind(s, p)
      [] s.calling[p].pc = "ig_enc1" -> IntGetEncodeHead(s, p)
      [] s.calling[p].pc = "ig_enc2" -> IntGetEncodeMid(s, p)
      [] s.calling[p].pc = "ig_enc3" -> IntGetEncodeTail(s, p)
      [] s.calling[p].pc = "iu_lock" -> IntUpdateFind(s, p)
      [] s.calling[p].pc = "iu_sid" -> IntUpdateStudentID(s, p)
      [] s.calling[p].pc = "iu_cid" -> IntUpdateCourseID(s, p)
      [] s.calling[p].pc = "iu_st" -> IntUpdateStatus(s, p)
      [] s.calling[p].pc = "id_lock" -> IntDeleteFind(s, p)
\* The handler runs to its response.
RECURSIVE IntRun(_, _)
IntRun(s, p) ==
    IF s.calling[p].pc = "done" THEN s ELSE IntRun(IntStep(s, p), p)

\* The requests that can arrive.
IdFields == {Field("absent", 0), Field("null", 0)}
            \cup {Field("value", v) : v \in 0..2}
StatusFields == {Field("absent", ""), Field("null", "")}
                \cup {Field("value", v) :
                         v \in {"", "dropped", "active", "completed"}}
IntBodies ==
    {Malformed}
    \cup [student_id : IdFields, course_id : IdFields, status : StatusFields]
Paths == {Path(FALSE, 0)} \cup {Path(TRUE, i) : i \in IntIds}
\* The creates in flight that have not stored yet.
Creating(s) == {q \in Procs : s.calling[q].op = "create"
                                /\ s.calling[q].pc \notin {"idle", "done"}}
Quiet == \A q \in Procs : calling[q].pc = "idle"

\* ---- SpecInt: the integer-id server, one request at a time, with any body
IntServe(p, begins) ==
    /\ p = Min(Procs)
    /\ Quiet
    /\ \E s1 \in begins : IntInstall(IntRun(s1, p))
CreateEnrollmentHandler(p) ==
    /\ store.nextID <= MaxInts
    /\ IntServe(p, {IntCreateBegin(IntCur, p, b) : b \in IntBodies})
GetEnrollmentByIDHandler(p) ==
    IntServe(p, {IntGetBegin(IntCur, p, path) : path \in Paths})
UpdateEnrollmentHandler(p) ==
    IntServe(p, {IntUpdateBegin(IntCur, p, x[1], x[2]) :
                   x \in Paths \X IntBodies})
DeleteEnrollmentHandler(p) ==
    IntServe(p, {IntDeleteBegin(IntCur, p, path) : path \in Paths})
IntReturned(p) ==
    /\ calling[p].pc = "done"
    /\ IntInstall(IntReturn(IntCur, p))
NextInt ==
    \E p \in Procs :
       \/ CreateEnrollmentHandler(p)
       \/ GetEnrollmentByIDHandler(p)
       \/ UpdateEnrollmentHandler(p)
       \/ DeleteEnrollmentHandler(p)
       \/ IntReturned(p)
SpecInt == Init /\ [][NextInt]_vars

\* ---- SpecIntConc: the integer-id server, requests overlapping, one step
\* of one goroutine at a time
Body(sid, cid, st) ==
    [student_id |-> sid, course_id |-> cid, status |-> st]
NewBodies == {Body(Field("value", 1), Field("value", 1),
                   Field("value", "pending"))}
ChangeBodies ==
    {Body(Field("value", 2), Field("value", 2), Field("value", "active")),
     Body(Field("absent", 0), Field("absent", 0),
          Field("value", "completed"))}
IntCreateArrives(p) ==
    /\ calling[p].pc = "idle"
    /\ store.nextID + Cardinality(Creating(IntCur)) <= MaxInts
    /\ \E b \in NewBodies : IntInstall(IntCreateBegin(IntCur, p, b))
IntGetArrives(p) ==
    /\ calling[p].pc = "idle"
    /\ \E i \in IntIds : IntInstall(IntGetBegin(IntCur, p, Path(TRUE, i)))
IntUpdateArrives(p) ==
    /\ calling[p].pc = "idle"
    /\ \E i \in IntIds, b \in ChangeBodies :
          IntInstall(IntUpdateBegin(IntCur, p, Path(TRUE, i), b))
IntDeleteArrives(p) ==
    /\ calling[p].pc = "idle"
    /\ \E i \in IntIds : IntInstall(IntDeleteBegin(IntCur, p, Path(TRUE, i)))
IntStepped(p) ==
    /\ calling[p].pc \notin {"idle", "done"}
    /\ ~IntBlocked(IntCur, p)
    /\ IntInstall(IntStep(IntCur, p))
NextIntConc ==
    \E p \in Procs :
       \/ IntCreateArrives(p)
       \/ IntGetArrives(p)
       \/ IntUpdateArrives(p)
       \/ IntDeleteArrives(p)
       \/ IntStepped(p)
       \/ IntReturned(p)
SpecIntConc == Init /\ [][NextIntConc]_vars

\* ==================================================================== claims
\* The handler of p has responded to a request of kind o.
Done(p, o) == pc[p] = "done" /\ op[p] = o
\* The request of p names the id of the latest write, which was an o, and no
\* read of that id has returned since.
Follows(p, o) == last.op = o /\ last.id = rid[p]
\* The latest write left no entry for its id in Redis: the handler has no
\* cache, or its cache.Delete returned nil, or there was no entry.
Purged == ~hcache \/ last.invalidated \/ ~last.hadEntry

C2_CreateThenTwoGets ==
    \A p \in Procs :
       Done(p, "get")
       => /\ Follows(p, "create")
             => /\ resp[p].code = 200
                /\ resp[p].xcache = "MISS"
                /\ resp[p].body = last.written
          /\ ( /\ Follows(p, "get")
               /\ last.prev = "create"
               /\ last.cacheOk
               /\ hist[p].cacheCalls > 0
               /\ hist[p].cacheOk = hist[p].cacheCalls )
             => /\ resp[p].code = 200
                /\ resp[p].xcache = "HIT"
                /\ resp[p].body = last.written
\* C2 witness: the second GetEnrollment after a Create is a HIT with the
\* created record.
C2_Witness ==
    \E p \in Procs :
       /\ Done(p, "get") /\ Follows(p, "get")
       /\ last.prev = "create" /\ last.xcache = "MISS" /\ last.cacheOk
       /\ resp[p].code = 200
       /\ resp[p].xcache = "HIT"
       /\ resp[p].body = last.written

\* A request is served: the handler of p goes from idle to its response.
Served(p, o) == pc[p] = "idle" /\ pc'[p] = "done" /\ op'[p] = o
C4_HitSkipsStore ==
    \A p \in Procs :
       /\ Done(p, "get") /\ hist[p].found
          => /\ resp[p].code = 200
             /\ resp[p].xcache = "HIT"
             /\ redis[rid[p]] # NoEntry
             /\ resp[p].body = redis[rid[p]].data
             /\ hist[p].repoGets = 0
       /\ pc[p] = "done" /\ resp[p].xcache = "HIT"
          => op[p] = "get" /\ hist[p].found
\* C4 witness: a HIT.
C4_Witness ==
    \E p \in Procs :
       /\ Done(p, "get") /\ hist[p].found
       /\ resp[p].xcache = "HIT"
       /\ hist[p].repoGets = 0

\* C5: an id that was never created has no cache entry, and every
\* GetEnrollment of it misses the cache and answers 404.
C5_NoNegativeCaching ==
    \A id \in Ids \ issued :
       /\ redis[id] = NoEntry
       /\ \A p \in Procs :
             Done(p, "get") /\ rid[p] = id
             => /\ resp[p].code = 404
                /\ resp[p].xcache # "HIT"
                /\ ~hist[p].found
                /\ hist[p].repoGets = 1
\* C5 witness: with other records created and the cache answering, a
\* GetEnrollment of a never created id answers 404.
C5_Witness ==
    \E p \in Procs :
       /\ Done(p, "get") /\ rid[p] \notin issued
       /\ issued # {}
       /\ hcache /\ hist[p].cacheOk = 1
       /\ resp[p].code = 404

C8_CreatedAtKept ==
    \A id \in Ids :
       enrollments[id] # NULL
       => heap[enrollments[id]].created_at.wall = createdStamp[id]

\* C6: under overlapping repo.Create calls an id is won by at most one
\* Create; a Create fails, with ErrAlreadyExists, exactly when the store
\* already held its id, and otherwise its record is stored; GetAll returns
\* the records the store holds.
C6_ConcurrentCreates ==
    /\ \A id \in Ids :
          /\ wins[id] <= 1
          /\ wins[id] = 1 <=> enrollments[id] # NULL
    /\ \A p \in Procs :
          Done(p, "create")
          => /\ resp[p].code \in {201, 409}
             /\ resp[p].code = 409 <=> hist[p].atRead # <<>>
             /\ resp[p].code = 201
                => resp[p].body = Held(heap, enrollments, rid[p])
             /\ wins[rid[p]] = 1
    /\ \A p \in Procs :
          Done(p, "getall")
          => /\ resp[p].body = ListBody(hist[p].atRead)
             /\ hist[p].atRead \subseteq HeldAll(heap, enrollments)
\* C6 witness: two Creates of one id are in flight together, one has won
\* and the other got ErrAlreadyExists, while a Create of another id has
\* succeeded too.
C6_Witness ==
    \E p, q \in Procs :
       /\ p # q
       /\ Done(p, "create") /\ Done(q, "create")
       /\ rid[p] = rid[q]
       /\ resp[p].code = 201 /\ resp[q].code = 409
       /\ \E id \in Ids \ {rid[p]} : wins[id] = 1

\* C9 as stated: every cache entry equals the record the store held under
\* its id at the moment the entry was written.
C9_AsStated ==
    \A id \in Ids :
       redis[id] # NoEntry => redis[id].data = redis[id].atWrite
\* C9 amended: every cache entry is the full JSON of the record the store
\* held under its id when the request that wrote the entry looked it up.
C9_EntryIsSnapshot ==
    \A id \in Ids :
       redis[id] # NoEntry
       => /\ redis[id].atRead # <<>>
          /\ redis[id].data = redis[id].atRead
          /\ redis[id].data[1] = id
\* C9 witness: an entry written after the store had moved on: it is the
\* record that was looked up, not the one held when it was written.
C9_Witness ==
    \E id \in Ids :
       /\ redis[id] # NoEntry
       /\ redis[id].data = redis[id].atRead
       /\ redis[id].atWrite # <<>>
       /\ redis[id].data # redis[id].atWrite

\* C10: a GetEnrollment answered 200 returns, in full, the record the store
\* held when it was looked up or one stored since; no goroutine is inside a
\* read of the map while another is inside a write of it.
C10_GetRacingUpdate ==
    /\ \A p \in Procs :
          Done(p, "get") /\ resp[p].code = 200
          => resp[p].body \in {hist[p].atRead} \cup hist[p].during
    /\ muW # 0 => muR = {}
    /\ \A p, q \in Procs :
          ~ (/\ pc[p] \in {"g_read", "ga_read"}
             /\ pc[q] \in {"c_insert", "u_store", "d_store"})
\* C10 witness: an Update stored a different record while a GetEnrollment
\* held the pointer it had looked up; the Get returns the record from
\* before the Update.
C10_Witness ==
    \E p \in Procs :
       /\ Done(p, "get") /\ resp[p].code = 200
       /\ resp[p].xcache = "MISS"
       /\ hist[p].during # {}
       /\ resp[p].body = hist[p].atRead
       /\ resp[p].body \notin hist[p].during

\* C11: a step of an UpdateEnrollment or DeleteEnrollment calls the cache
\* only after its store write succeeded, once, and all it does to Redis is
\* remove the entry of its id; the store write comes before any cache call
\* and a request that fails makes none.
C11_InvalidateAfterStore ==
    [][\A p \in Procs :
          op'[p] \in {"update", "delete"} /\ pc'[p] # pc[p]
          => /\ hist'[p].cacheCalls > hist[p].cacheCalls
                => hist[p].stored /\ hist[p].cacheCalls = 0
             /\ \A id \in Ids :
                   redis'[id] # redis[id]
                   => /\ hist[p].stored
                      /\ id = rid[p]
                      /\ redis'[id] = NoEntry
             /\ enrollments' # enrollments
                => hist[p].cacheCalls = 0 /\ ~hist[p].stored
             /\ hist'[p].stored /\ ~hist[p].stored
                => /\ op[p] = "delete" => enrollments'[rid[p]] = NULL
                   /\ op[p] = "update"
                      => Held(heap', enrollments', rid[p]) = hist[p].written
             /\ pc'[p] = "done" /\ resp'[p].code # 200
                => hist'[p].cacheCalls = 0 /\ ~hist'[p].stored]_vars
\* C11 witness: a Delete removed the record and then the entry Redis held
\* for its id.
C11_Witness ==
    \E p \in Procs :
       /\ Done(p, "delete")
       /\ hist[p].stored /\ hist[p].hadEntry /\ hist[p].invalidated
       /\ enrollments[rid[p]] = NULL
       /\ redis[rid[p]] = NoEntry

\* C12: an UpdateEnrollment or DeleteEnrollment of an id the store does
\* not hold answers 404 (an Update with a bad body: 400); a request answered
\* 400 or 404 changes neither the store nor Redis, and 404 is answered for
\* absent ids only.
C12_FailedWriteChangesNothing ==
    [][\A p \in Procs :
          Served(p, "update") \/ Served(p, "delete")
          => /\ enrollments[rid'[p]] = NULL
                => resp'[p].code \in
                      (IF op'[p] = "delete" THEN {404} ELSE {400, 404})
             /\ resp'[p].code \in {400, 404}
                => UNCHANGED <<enrollments, heap, redis>>
             /\ resp'[p].code = 404 => enrollments[rid'[p]] = NULL]_vars
\* C12 witness: an Update of an absent id answered 404 while Redis holds an
\* entry for that id, which is still there.
C12_Witness ==
    \E p \in Procs :
       /\ Done(p, "update")
       /\ resp[p].code = 404
       /\ enrollments[rid[p]] = NULL
       /\ redis[rid[p]] # NoEntry

\* C13: CreateEnrollment and GetAllEnrollments make no cache call and leave
\* Redis as it was; an entry for K is written only by a GetEnrollment of K
\* that found nothing in the cache and found K in the store, and it is the
\* record the store holds.
C13_OnlyMissingReadsPopulate ==
    [][/\ \A p \in Procs :
             Served(p, "create") \/ Served(p, "getall")
             => redis' = redis /\ hist'[p].cacheCalls = 0
       /\ \A id \in Ids :
             redis'[id] # NoEntry /\ redis'[id] # redis[id]
             => \E p \in Procs :
                   /\ Served(p, "get")
                   /\ rid'[p] = id
                   /\ ~hist'[p].found
                   /\ hist'[p].repoGets = 1
                   /\ enrollments[id] # NULL
                   /\ resp'[p].code = 200
                   /\ resp'[p].xcache = "MISS"
                   /\ redis'[id].data = Held(heap, enrollments, id)]_vars
\* C13 witness: a CreateEnrollment answered 201 while Redis holds an entry
\* for another id and none for the new one.
C13_Witness ==
    \E p \in Procs :
       /\ Done(p, "create")
       /\ resp[p].code = 201
       /\ redis[rid[p]] = NoEntry
       /\ \E id \in Ids : redis[id] # NoEntry

\* The status and body of the response of p in state s.
Outcome(s, p) == [code |-> s.resp[p].code, body |-> s.resp[p].body]
\* Every cache call fails.
AllFail == [k \in 1..2 |-> FALSE]
\* The request that begins in s1 is answered alike whatever its cache calls
\* do.
SameWhateverCache(s1, p) ==
    \A ups \in Fates(2) :
       Outcome(Run(s1, p, ups), p) = Outcome(Run(s1, p, AllFail), p)
\* Redis holds no entry for id, or the record the store holds under id.
Coherent(id) ==
    redis[id] = NoEntry \/ redis[id].data = Held(heap, enrollments, id)

Alike(a, b, p) ==
    /\ Outcome(a, p) = Outcome(b, p)
    /\ a.enrollments = b.enrollments
    /\ a.heap = b.heap
\* An UpdateEnrollment of id with body b arrives in state s.
UpdateBeginOf(s, p, id, b) ==
    IF Validate(b) = "" THEN UpdateAccept(s, p, id, b)
    ELSE UpdateInvalid(s, p, id, b)
\* Every request is answered alike, and leaves the same store, whether or
\* not the entries of the ids in D are dropped before it arrives.
SameAfterDrop(D, p) ==
    LET c == Dropped(Cur, D)
    IN \A ups \in Fates(2) :
          /\ \A id \in Ids :
                /\ Alike(Run(GetBegin(Cur, p, id), p, ups),
                         Run(GetBegin(c, p, id), p, ups), p)
                /\ Alike(Run(DeleteBegin(Cur, p, id), p, ups),
                         Run(DeleteBegin(c, p, id), p, ups), p)
                /\ \A b \in SomeBodies :
                      Alike(Run(UpdateBeginOf(Cur, p, id, b), p, ups),
                            Run(UpdateBeginOf(c, p, id, b), p, ups), p)
          /\ Alike(Run(GetAllBegin(Cur, p), p, ups),
                   Run(GetAllBegin(c, p), p, ups), p)

C16_UpdateForcesId ==
    \A p \in Procs :
       /\ pc[p] = "done"
       /\ op[p] \in {"update", "repo.Update"}
       /\ resp[p].code = 200
       => /\ enrollments[rid[p]] # NULL
          /\ Held(heap, enrollments, rid[p]) =
                [hist[p].written EXCEPT ![1] = rid[p]]
          /\ op[p] = "update"
             => /\ resp[p].body = Held(heap, enrollments, rid[p])
                /\ resp[p].body[1] = rid[p]
\* C16 witness: repo.Update(id, e) succeeded with e carrying the id of
\* another record, and the store holds e under id with ID = id.
C16_Witness ==
    \E p \in Procs :
       /\ Done(p, "repo.Update")
       /\ resp[p].code = 200
       /\ hist[p].bodyId \in Ids \ {rid[p]}
       /\ hist[p].written[1] = hist[p].bodyId
       /\ Held(heap, enrollments, rid[p])[1] = rid[p]

\* C17 as stated: what repo.GetByID and repo.GetAll return shares no mutable
\* state with the store: no pointer a reader was handed is a pointer the map
\* holds, so that writing through it cannot change a stored record.
C17_ReturnsShareNothing ==
    \A p \in Procs :
       op[p] \in {"get", "getall"}
       => \A a \in ptr[p] : \A id \in Ids : enrollments[id] # a

\* C18: repo.Create of a record whose id the store holds fails with
\* ErrAlreadyExists and leaves the map and every stored record as they were;
\* otherwise it stores the record under its id and leaves the others alone.
C18_CreateKeepsExisting ==
    [][\A p \in Procs :
          /\ op[p] = "create" /\ pc[p] = "c_lock" /\ pc'[p] # "c_lock"
             => IF enrollments[rid[p]] # NULL
                THEN /\ pc'[p] = "done"
                     /\ resp'[p].code = 409
                     /\ enrollments' = enrollments
                     /\ \A id \in Ids :
                           Held(heap', enrollments', id) =
                              Held(heap, enrollments, id)
                ELSE pc'[p] = "c_insert"
          /\ op[p] = "create" /\ pc[p] = "c_insert" /\ pc'[p] # "c_insert"
             => /\ pc'[p] = "done"
                /\ resp'[p].code = 201
                /\ Held(heap', enrollments', rid[p]) = hist[p].written
                /\ \A id \in Ids \ {rid[p]} :
                      /\ enrollments'[id] = enrollments[id]
                      /\ Held(heap', enrollments', id) =
                            Held(heap, enrollments, id)]_vars
\* C18 witness: a Create was refused with ErrAlreadyExists and the store
\* still holds, under that id, a record that differs from the refused one.
C18_Witness ==
    \E p \in Procs :
       /\ Done(p, "create")
       /\ resp[p].code = 409
       /\ enrollments[rid[p]] # NULL
       /\ Held(heap, enrollments, rid[p]) # hist[p].written
       /\ Held(heap, enrollments, rid[p]) = hist[p].atRead

\* C19: GetAllEnrollments answers 200 with a JSON array (never null) that
\* holds exactly the records the store holds: one per live id, none of a
\* deleted id.
C19_GetAllIsTheStore ==
    \A p \in Procs :
       Done(p, "getall")
       => /\ resp[p].code = 200
          /\ resp[p].body = <<"list", HeldAll(heap, enrollments)>>
          /\ Cardinality(resp[p].body[2]) =
                Cardinality({id \in Ids : enrollments[id] # NULL})
          /\ \A js \in resp[p].body[2] :
                /\ js[1] \in Ids
                /\ enrollments[js[1]] # NULL
                /\ js = Held(heap, enrollments, js[1])
\* C19 witness: records were created and all deleted again, and GetAll
\* answers the empty array.
C19_Witness ==
    \E p \in Procs :
       /\ Done(p, "getall")
       /\ issued # {}
       /\ \A id \in Ids : enrollments[id] = NULL
       /\ resp[p].body = <<"list", {}>>

\* C20 as stated: the record a CreateEnrollment answers with 201 has
\* created_at equal to updated_at.
C20_CreatedEqualsUpdated ==
    \A p \in Procs :
       Done(p, "create") /\ resp[p].code = 201
       => resp[p].body[6] = resp[p].body[7]

\* C21 as stated: a GetEnrollment answered 200 by a handler without a cache
\* carries X-Cache-Status SKIP; HIT is reported only for a record served
\* from the cache, MISS only for one read from the store and cached.
C21_SkipWithoutCache ==
    \A p \in Procs :
       Done(p, "get") /\ resp[p].code = 200
       => /\ ~hcache => resp[p].xcache = "SKIP"
          /\ resp[p].xcache = "HIT"
             => hist[p].found /\ hist[p].repoGets = 0
          /\ resp[p].xcache = "MISS"
             => /\ hist[p].repoGets = 1
                /\ redis[rid[p]] # NoEntry
                /\ redis[rid[p]].data = resp[p].body

\* C22: an entry is written with expiry EnrollmentCacheTTL after the clock
\* reading of its Set, also when it replaces an entry, and is gone when that
\* time has come; a GetEnrollment that arrives when Redis holds no entry
\* (none written, or expired) reads the store, and when the store holds the
\* record and the cache answers, writes the entry anew.
C22_FixedTTL ==
    [][\A id \in Ids :
          /\ redis'[id] # NoEntry
             => /\ now' < redis'[id].expireAt
                /\ redis'[id].expireAt <= now' + EnrollmentCacheTTL
          /\ redis'[id] # NoEntry /\ redis'[id] # redis[id]
             => redis'[id].expireAt = now' + EnrollmentCacheTTL
          /\ \A p \in Procs :
                Served(p, "get") /\ rid'[p] = id /\ redis[id] = NoEntry
                => /\ ~hist'[p].found
                   /\ hist'[p].repoGets = 1
                   /\ resp'[p].xcache # "HIT"
                   /\ enrollments[id] # NULL /\ hist'[p].cacheOk = 2
                      => /\ resp'[p].code = 200
                         /\ resp'[p].xcache = "MISS"
                         /\ redis'[id] # NoEntry
                         /\ redis'[id].data = Held(heap, enrollments, id)]_vars
\* C22 witness: the first GetEnrollment after a Create cached the record;
\* with no write since, the entry expired, and the next GetEnrollment is a
\* MISS that wrote it again with a new expiry.
C22_Witness ==
    \E p \in Procs :
       /\ Done(p, "get") /\ Follows(p, "get")
       /\ last.prev = "create" /\ last.xcache = "MISS" /\ last.cacheOk
       /\ ~hist[p].hadEntry
       /\ now > EnrollmentCacheTTL
       /\ resp[p].code = 200
       /\ resp[p].xcache = "MISS"
       /\ redis[rid[p]] # NoEntry
       /\ redis[rid[p]].expireAt = now + EnrollmentCacheTTL

\* C23: cache.Delete(id) with Redis answering returns nil whether or not an
\* entry is there, removes the entry of id and no other, changes nothing
\* when there is none, and leaves the same keyspace when applied again; so
\* does the cache.Delete of every UpdateEnrollment and DeleteEnrollment that
\* returned nil.
C23_DeleteIdempotent ==
    [][/\ \A id \in Ids :
             LET once == CacheDelete(redis, TRUE, id)
                 twice == CacheDelete(once.redis, TRUE, id)
             IN /\ ~once.err /\ ~twice.err
                /\ once.redis = [redis EXCEPT ![id] = NoEntry]
                /\ redis[id] = NoEntry => once.redis = redis
                /\ twice.redis = once.redis
       /\ \A p \in Procs :
             /\ Served(p, "update") \/ Served(p, "delete")
             /\ hist'[p].invalidated
             => /\ redis' = [redis EXCEPT ![rid'[p]] = NoEntry]
                /\ redis[rid'[p]] = NoEntry => redis' = redis]_vars
\* C23 witness: the cache.Delete of a DeleteEnrollment returned nil though
\* Redis held no entry for its id, and the entry of another id is in place.
C23_Witness ==
    \E p \in Procs :
       /\ Done(p, "delete")
       /\ resp[p].code = 200
       /\ ~hist[p].hadEntry /\ hist[p].invalidated
       /\ \E id \in Ids \ {rid[p]} : redis[id] # NoEntry

FirstFailing(b) ==
    LET failing ==
          {k \in 1..4 :
             \/ k = 1 /\ b.student_id = ""
             \/ k = 2 /\ b.course_id = ""
             \/ k = 3 /\ b.status = ""
             \/ k = 4 /\ b.status \notin {"pending", "active", "completed"}}
        msgs == <<"student_id is required", "course_id is required",
                  "status is required",
                  "status must be one of: pending, active, completed">>
    IN IF failing = {} THEN "" ELSE msgs[Min(failing)]
\* The bodies of SpecValid, with every status of ValidStatuses as well.
ValidateInputs ==
    {[b EXCEPT !.status = st] :
        b \in AnyBodies, st \in BodyStatuses \cup ValidStatuses}
\* The request that begins in s1 was refused with 400 and message msg.
Refused(s1, p, msg) ==
    /\ s1.pc[p] = "done"
    /\ s1.resp[p].code = 400
    /\ s1.resp[p].body = ErrorBody(msg)
\* C25: Validate accepts a record exactly when student_id and course_id are
\* non-empty and status is pending, active or completed, and otherwise
\* reports the first failing rule; a CreateEnrollment or UpdateEnrollment
\* whose decoded body fails is answered 400 with that message, one whose
\* body passes is not refused for its body, and a request answered 400
\* changes neither the store nor Redis.
C25_ValidateRules ==
    [][/\ \A b \in ValidateInputs :
             LET p == Min(Procs)
                 msg == FirstFailing(b)
                 decoded(S) ==
                     {s1 \in S :
                        s1.resp[p].body # ErrorBody("Invalid request payload")}
                 begun ==
                     decoded(CreateBegins(Cur, p, {b}, OneId, {0}))
                     \cup decoded(UpdateBegins(Cur, p, {b}, OneId))
             IN /\ Validate(b) = msg
                /\ (Validate(b) = "")
                      <=> /\ b.student_id # "" /\ b.course_id # ""
                          /\ b.status \in {"pending", "active", "completed"}
                /\ AllIdle
                      => /\ begun # {}
                         /\ \A s1 \in begun :
                               IF msg # "" THEN Refused(s1, p, msg)
                               ELSE s1.pc[p] \in {"c_call", "u_call"}
       /\ \A p \in Procs :
             /\ Served(p, "create") \/ Served(p, "update")
             /\ resp'[p].code = 400
             => UNCHANGED <<enrollments, heap, redis>>]_vars
\* C25 witness: an UpdateEnrollment of a stored id whose body has a
\* student_id and a status but no course_id was answered 400, course_id is
\* required, and the stored record is valid.
C25_Witness ==
    \E p \in Procs :
       /\ Done(p, "update")
       /\ resp[p] = [code |-> 400, xcache |-> "",
                     body |-> ErrorBody("course_id is required")]
       /\ enrollments[rid[p]] # NULL
       /\ Validate(heap[enrollments[rid[p]]]) = ""

\* The handler of p answers code with message msg in this step.
Answers(p, code, msg) ==
    /\ pc'[p] = "done"
    /\ resp'[p].code = code
    /\ resp'[p].body = ErrorBody(msg)
\* C26: a GetByID, Update or Delete that finds its id absent (ErrNotFound)
\* is answered 404, Enrollment not found, and one that finds it is not; a
\* Create that finds its id taken (ErrAlreadyExists) is answered 409,
\* Enrollment already exists, and one that finds it free is not; 404 and
\* 409 are answered on no other occasion, and 500 never.
C26_ErrorsKeepTheirKind ==
    [][\A p \in Procs :
          LET absent == enrollments[rid[p]] = NULL
              lookup == pc[p] \in {"g_read", "u_lock", "d_lock"}
              insert == pc[p] = "c_lock"
              moved == pc'[p] # pc[p]
          IN /\ lookup /\ moved /\ absent
                => Answers(p, 404, "Enrollment not found")
             /\ lookup /\ moved /\ ~absent
                => pc'[p] \in {"g_set", "g_resp", "u_store", "d_store"}
             /\ insert /\ moved /\ ~absent
                => Answers(p, 409, "Enrollment already exists")
             /\ insert /\ moved /\ absent => pc'[p] = "c_insert"
             /\ pc[p] # "done" /\ pc'[p] = "done"
                => /\ resp'[p].code = 404 => lookup /\ absent
                   /\ resp'[p].code = 409 => insert /\ ~absent
                   /\ resp'[p].code \in {200, 201, 400, 404, 409}]_vars
\* C26 witness: a GetEnrollment was answered 404 and a CreateEnrollment was
\* answered 409 for the same id.
C26_Witness ==
    \E p, q \in Procs :
       /\ Done(p, "get") /\ resp[p].code = 404
       /\ Done(q, "create") /\ resp[q].code = 409
       /\ rid[p] = rid[q]

\* C27: every stored record has an enrollment_date that is not the zero
\* time.
C27_EnrollmentDateDefined ==
    \A id \in Ids :
       enrollments[id] # NULL
       => ~IsZero(heap[enrollments[id]].enrollment_date)

\* C28: once every request has completed, Redis holds for no id an entry
\* that differs from the record the store holds under that id, and no entry
\* for an id the store does not hold.
C28_NoStaleEntryAtRest ==
    AllIdle /\ hcache => \A id \in Ids : Coherent(id)

\* The handler of p answers from the cache in this step.
Hits(p) == pc[p] = "g_cache" /\ pc'[p] = "done" /\ resp'[p].xcache = "HIT"
\* C29: a GetEnrollment answered from the cache returns a record that the
\* store held under the id at some time within the EnrollmentCacheTTL
\* minutes before the answer.
C29_BoundedStaleness ==
    [][\A p \in Procs :
          Hits(p)
          => LET id == rid[p]
             IN /\ resp'[p].body = redis[id].data
                /\ lost[id] = 0 \/ now - lost[id] <= EnrollmentCacheTTL]_vars

\* The requests that can arrive, as the states they begin in: from s for
\* the handler with the cache, from Uncached(s) for the one without.
Requests(p) ==
    LET both(F(_)) == {<<F(Cur), F(Uncached(Cur))>>}
    IN UNION {both(LAMBDA s : CreateDecodeError(s, p))}
       \cup UNION {both(LAMBDA s : CreateInvalid(s, p, b)) :
                     b \in SomeBodies \ GoodBodies}
       \cup UNION {both(LAMBDA s : CreateAccept(s, p, x[1], x[2], 0, 0)) :
                     x \in GoodBodies \X NewIds(Cur)}
       \cup UNION {both(LAMBDA s : GetBegin(s, p, id)) : id \in Ids}
       \cup both(LAMBDA s : GetAllBegin(s, p))
       \cup UNION {both(LAMBDA s : UpdateDecodeError(s, p, id)) : id \in Ids}
       \cup UNION {both(LAMBDA s : UpdateBeginOf(s, p, x[1], x[2])) :
                     x \in Ids \X SomeBodies}
       \cup UNION {both(LAMBDA s : DeleteBegin(s, p, id)) : id \in Ids}
\* C30: between requests, with Redis reachable, every request is answered
\* with the same status and body, and leaves the same store, by the handler
\* with the cache and by the handler without it.
C30_CacheIsTransparent ==
    AllIdle /\ hcache
    => LET p == Min(Procs)
       IN \A r \in Requests(p) :
             Alike(Run(r[1], p, AllOk), Run(r[2], p, <<>>), p)
\* C30 witness: a GetEnrollment of an updated record was answered from the
\* cache.
C30_Witness ==
    \E p \in Procs :
       /\ Done(p, "get")
       /\ resp[p].code = 200 /\ resp[p].xcache = "HIT"
       /\ resp[p].body[6] = 0
       /\ resp[p].body = Held(heap, enrollments, rid[p])

\* C31: every key of the map is the ID of the record stored under it, no
\* two keys hold the same record or records with the same ID, and every
\* stored record has a student_id, a course_id and a status that is
\* pending, active or completed.
C31_KeysAreIds ==
    /\ \A id \in Ids :
          enrollments[id] # NULL
          => LET e == heap[enrollments[id]]
             IN /\ e # NoObj
                /\ e.id = id
                /\ e.student_id # "" /\ e.course_id # ""
                /\ e.status \in {"pending", "active", "completed"}
    /\ \A i, j \in Ids :
          i # j /\ enrollments[i] # NULL /\ enrollments[j] # NULL
          => /\ enrollments[i] # enrollments[j]
             /\ heap[enrollments[i]].id # heap[enrollments[j]].id
\* C31 witness: two records are stored, and an UpdateEnrollment whose body
\* carried the id of the other one has stored its record.
C31_Witness ==
    \E p \in Procs :
       /\ Done(p, "update")
       /\ resp[p].code = 200
       /\ hist[p].bodyId \in Ids \ {rid[p]}
       /\ \A id \in Ids : enrollments[id] # NULL

\* C32: every create, get, update and delete of id K, answered with success
\* or with an error, leaves the store record and the Redis entry of every
\* other id as they were.
C32_OthersUntouched ==
    [][\A p \in Procs : \A o \in {"create", "get", "update", "delete"} :
          Served(p, o)
          => \A id \in Ids \ {rid'[p]} :
                /\ enrollments'[id] = enrollments[id]
                /\ Held(heap', enrollments', id) = Held(heap, enrollments, id)
                /\ redis'[id] = redis[id]]_vars
\* C32 witness: an Update of K whose body carried another id answered 200
\* and invalidated K's entry while the other id is stored and cached.
C32_Witness ==
    \E p \in Procs :
       /\ Done(p, "update") /\ resp[p].code = 200
       /\ hist[p].hadEntry /\ hist[p].invalidated
       /\ \E id \in Ids \ {rid[p]} :
             /\ hist[p].bodyId = id
             /\ enrollments[id] # NULL
             /\ redis[id] # NoEntry

C34_MiddlewareReportsRecorded ==
    mw.serving.pc = "sent"
    => mw.serving.wire = IF mw.serving.recorded # NoStatus
                         THEN mw.serving.recorded ELSE CacheSkip

\* C38: GetCacheStatus of the request SetCacheStatus(r, s) returns is s,
\* GetCacheStatus of a request whose context holds no status is SKIP, and
\* SetCacheStatus(r, s) leaves r and the status read from r as they were.
C38_StatusRoundTrip ==
    /\ \A a \in Used(mw.reqs) : \A status \in Statuses :
          Free(mw.reqs) # {}
          => LET c == SetCacheStatus(mw.reqs, a, status)
             IN /\ c.r # a
                /\ GetCacheStatus(c.reqs, c.r) = status
                /\ c.reqs[a] = mw.reqs[a]
                /\ GetCacheStatus(c.reqs, a) = GetCacheStatus(mw.reqs, a)
    /\ \A a \in Used(mw.reqs) :
          (\A k \in DOMAIN mw.reqs[a].ctx : mw.reqs[a].ctx[k] = NoStatus)
          => GetCacheStatus(mw.reqs, a) = CacheSkip
\* C38 witness: a request that carries HIT next to the request it was made
\* from, which carries MISS, and a request with no status, read as SKIP.
C38_Witness ==
    \E a, b, c \in Used(mw.reqs) :
       /\ mw.reqs[a].ctx = <<CacheMiss>>
       /\ mw.reqs[b].ctx = Append(mw.reqs[a].ctx, CacheHit)
       /\ GetCacheStatus(mw.reqs, a) = CacheMiss
       /\ GetCacheStatus(mw.reqs, b) = CacheHit
       /\ mw.reqs[c].ctx = <<>>
       /\ mw.serving.got = CacheSkip

\* A handler of the integer-id server has answered in this step.
IntAnswered(p, o) ==
    /\ calling[p].pc # "done" /\ calling'[p].pc = "done"
    /\ calling'[p].op = o

\* C35: in the integer-id server nextID never decreases; a create that
\* answers 201 hands out the value of nextID, which is above every id
\* handed out before, stores its record under that id and moves nextID
\* past it; and a key that enters the map was never handed out before,
\* whatever creates and deletes overlap.
C35_IdsUniqueAndIncreasing ==
    [][/\ store'.nextID >= store.nextID
       /\ \A p \in Procs :
             IntAnswered(p, "create") /\ calling'[p].code = 201
             => LET id == calling'[p].body[1]
                IN /\ id = store.nextID
                   /\ store'.nextID = id + 1
                   /\ \A k \in DOMAIN store.handed : store.handed[k] < id
                   /\ store'.handed = Append(store.handed, id)
                   /\ store'.enrollments[id]
                   /\ store'.objs[id].ID = id
       /\ \A i \in IntIds :
             store'.enrollments[i] /\ ~store.enrollments[i]
             => /\ \A k \in DOMAIN store.handed : store.handed[k] # i
                /\ i = store.nextID]_vars
\* C35 witness: a create has answered with id 2 after id 1 was handed out
\* and deleted, while another request is in flight.
C35_Witness ==
    \E p \in Procs :
       /\ calling[p].op = "create" /\ calling[p].pc = "done"
       /\ calling[p].code = 201 /\ calling[p].body[1] = 2
       /\ store.handed = <<1, 2>>
       /\ ~store.enrollments[1]
       /\ \E q \in Procs \ {p} : calling[q].pc \notin {"idle", "done"}

\* C36 as stated: a GetEnrollmentByIDHandler answering 200 returns the
\* record as it was when it looked it up or as an UpdateEnrollmentHandler
\* that overlapped it left it, never a mix of the two.
C36_GetSeesWholeRecord ==
    \A p \in Procs :
       calling[p].op = "get" /\ calling[p].pc = "done" /\ calling[p].code = 200
       => calling[p].body \in calling[p].versions

\* C37: in the integer-id server an update that answers 200 sets exactly
\* the fields its body gives a value for, keeps the others, the ID and the
\* EnrollmentDate, and touches nothing else in the store; an update that
\* answers 400 or 404 leaves the store as it was; a field given as null
\* counts as left out.
C37_PartialUpdate ==
    [][\A p \in Procs :
          IntAnswered(p, "update")
          => LET c == calling'[p]
                 id == c.id
                 given(f) == c.raw # Malformed /\ c.raw[f].kind = "value"
                 old == store.objs[id]
             IN /\ c.code \in {200, 400, 404}
                /\ c.code = 200
                   => /\ Has(store, id)
                      /\ store' =
                           [store EXCEPT !.objs[id] =
                              [ID |-> old.ID,
                               StudentID |-> IF given("student_id")
                                             THEN c.raw.student_id.v
                                             ELSE old.StudentID,
                               CourseID |-> IF given("course_id")
                                            THEN c.raw.course_id.v
                                            ELSE old.CourseID,
                               EnrollmentDate |-> old.EnrollmentDate,
                               Status |-> IF given("status")
                                          THEN c.raw.status.v
                                          ELSE old.Status]]
                      /\ c.body = IntMarshal(store'.objs[id])
                /\ c.code # 200 => store' = store]_vars
\* C37 witness: an update whose body gave a course_id only has answered 200;
\* the record has the new course_id and the student_id and status it had.
C37_Witness ==
    \E p \in Procs :
       /\ calling[p].op = "update" /\ calling[p].pc = "done"
       /\ calling[p].code = 200
       /\ calling[p].raw.student_id.kind = "absent"
       /\ calling[p].raw.status.kind = "null"
       /\ calling[p].raw.course_id.kind = "value"
       /\ LET e == store.objs[calling[p].id]
              b == calling[p].before
          IN /\ e.CourseID = calling[p].raw.course_id.v
             /\ e.CourseID # b.CourseID
             /\ e.StudentID = b.StudentID /\ e.Status = b.Status
             /\ e.Status # "" /\ e.StudentID > 0

====
